---------------------------- MODULE Spec2Model ----------------------------
(***************************************************************************)
(* Detection-and-dispatch pipeline of the light-etl file watchers.         *)
(*                                                                         *)
(* Four watcher variants share one shape (poll tick -> stat -> settle      *)
(* sleep -> re-stat -> dispatch) and differ in the details:                *)
(*   "service"       file_watcher_service.py  PollingFileWatcher +         *)
(*                   FileProcessor (delayed-dispatch queue, two threads)   *)
(*   "working"       working_file_watcher.py  WorkingFileWatcher           *)
(*   "pattern"       pattern_based_cleaner_watcher.py PatternBasedWatcher  *)
(*   "configurable"  pattern_watcher_configurable.py                       *)
(*                   ConfigurablePatternWatcher                            *)
(*                                                                         *)
(* Strings are sequences of one-character strings, so that str.lower(),    *)
(* str.replace and the substring test "in" are computed, not assumed.      *)
(* A tick is split exactly at its time.sleep calls: between two steps of   *)
(* a tick the environment may create, rewrite or delete files.             *)
(***************************************************************************)
EXTENDS Integers, Sequences, FiniteSets, Bags, TLC

\* ------------------------------------------------------------------ bounds
\* File modification times are 1..MaxMtime (0 is "no value").
MaxMtime == 2
\* The dispatch history holds at most MaxMsgs records.
MaxMsgs == 2
\* Router inputs: paths of at most MaxLen characters and rule sets of at most
\* MaxRules rules.
MaxLen == 3
MaxRules == 2
\* At most MaxThreads poll threads are created by calls of start().
MaxThreads == 2
\* At most MaxEdits calls of add_pattern and remove_pattern are followed.
MaxEdits == 3

\* ------------------------------------------------------- program constants
\* ETL_PROCESS_DELAY = int(os.environ.get('ETL_PROCESS_DELAY', 30)), in units
\* of the model's clock step.
ETL_PROCESS_DELAY == 1
\* max_file_size_mb = dq_settings.get('max_file_size_mb', 100), in units of
\* the model's file sizes: a file can be smaller than the limit, exactly at
\* it, or larger.
max_file_size_mb == 2

None == "None"
NoFile == "NoFile"
Unset == "unset"

\* ----------------------------------------------------------------- strings
UpperCase == <<"A","B","C","D","E","F","G","H","I","J","K","L","M","N","O","P","Q","R","S","T","U","V","W","X","Y","Z">>
LowerCase == <<"a","b","c","d","e","f","g","h","i","j","k","l","m","n","o","p","q","r","s","t","u","v","w","x","y","z">>
Digits == <<"0","1","2","3","4","5","6","7","8","9">>

Range(s) == {s[i] : i \in DOMAIN s}

\* str.lower() on one character.
LowerChar(c) ==
    IF \E i \in DOMAIN UpperCase : UpperCase[i] = c
    THEN LowerCase[CHOOSE i \in DOMAIN UpperCase : UpperCase[i] = c]
    ELSE c

\* str.lower()
Lower(s) == [i \in DOMAIN s |-> LowerChar(s[i])]

\* str.replace('\\', '/')
ReplaceBackslash(s) == [i \in DOMAIN s |-> IF s[i] = "\\" THEN "/" ELSE s[i]]

\* Python's "sub in s" on strings.
Contains(s, sub) ==
    \E i \in 0..(Len(s) - Len(sub)) : \A k \in 1..Len(sub) : s[i + k] = sub[k]

\* filepath.replace('\\', '/').lower()
Normalize(filepath) == Lower(ReplaceBackslash(filepath))

\* ------------------------------------------------------------------ router
\* A rule set is the ordered dict pattern -> table, kept as the sequence of
\* its items in insertion order.
RECURSIVE MatchFrom(_, _, _)
MatchFrom(normalized_path, mappings, i) ==
    IF i > Len(mappings) THEN None
    ELSE IF Contains(normalized_path, Lower(mappings[i].pattern))
         THEN mappings[i].table
         ELSE MatchFrom(normalized_path, mappings, i + 1)

\* Mutant of get_table_name_from_path: the last matching rule wins.
get_table_name_last_wins(filepath, mappings) ==
    LET hits == {i \in DOMAIN mappings :
                    Contains(Normalize(filepath), Lower(mappings[i].pattern))}
    IN  IF hits = {} THEN None
        ELSE mappings[CHOOSE i \in hits : \A j \in hits : j <= i].table

\* Mutant of get_table_name_from_path: the path is lower-cased but its
\* backslashes are kept.
get_table_name_no_slash(filepath, mappings) ==
    MatchFrom(Lower(filepath), mappings, 1)

\* Mutant of get_table_name_from_path: an unmatched path falls back to the
\* table of the last rule instead of None.
get_table_name_fallback(filepath, mappings) ==
    LET t == MatchFrom(Normalize(filepath), mappings, 1)
    IN  IF t = None /\ Len(mappings) > 0 THEN mappings[Len(mappings)].table ELSE t

\* get_table_name_from_path: the table of the first rule, in dict order,
\* whose lower-cased pattern occurs in the normalized path; None otherwise.
get_table_name_from_path(filepath, mappings) ==
    MatchFrom(Normalize(filepath), mappings, 1)

\* PATTERN_TABLE_MAPPING, which is also the pattern_mappings of the default
\* configuration file.
PATTERN_TABLE_MAPPING ==
    << [pattern |-> <<"t","e","l","_","l","i","s","t">>, table |-> "dim_numbers"],
       [pattern |-> <<"c","u","s","t","o","m","e","r","_","d","a","t","a">>, table |-> "dim_customers"],
       [pattern |-> <<"p","r","o","d","u","c","t","_","i","n","f","o">>, table |-> "dim_products"],
       [pattern |-> <<"s","a","l","e","s","_","d","a","t","a">>, table |-> "fact_sales"],
       [pattern |-> <<"i","n","v","e","n","t","o","r","y">>, table |-> "dim_inventory"],
       [pattern |-> <<"t","r","a","n","s","a","c","t","i","o","n","s">>, table |-> "fact_transactions"],
       [pattern |-> <<"r","e","p","o","r","t","s">>, table |-> "staging_reports"] >>

\* ------------------------------------------------------------- file system
\* The files that can exist under the watch root.  Both carry a supported
\* extension, so one glob enumerates them.
\*   f1  Z:\Sales_Data\Reports\q1.csv   matches 'sales_data' and 'reports'
\*   f2  Z:\misc\x.csv                  matches no rule
Files == {"f1", "f2"}

PathOf(f) ==
    IF f = "f1"
    THEN <<"Z",":","\\","S","a","l","e","s","_","D","a","t","a","\\","R","e","p","o","r","t","s","\\","q","1",".","c","s","v">>
    ELSE <<"Z",":","\\","m","i","s","c","\\","x",".","c","s","v">>

Mtimes == 1..MaxMtime
\* st_size is only ever compared with 0: the empty file and a file with content.
Sizes == {0, 1}
Absent == [exists |-> FALSE, mtime |-> 0, size |-> 0]
FileStates ==
    {Absent} \cup [exists : {TRUE}, mtime : Mtimes, size : Sizes]

Variants == {"service", "working", "pattern", "configurable"}
PatternAware(v) == v \in {"pattern", "configurable"}


\* ntpath.splitdrive, as the length of the drive part of p.  Two leading
\* separators start a UNC or device drive, which runs up to the second
\* separator after them and takes the whole text when there is none; a colon
\* in second position ends a drive of two characters.
splitdrive(p) ==
    LET normp == [i \in DOMAIN p |-> IF p[i] = "/" THEN "\\" ELSE p[i]]
        \* normp.find(sep, start) as a 1-based position, 0 when not found
        find(start) ==
            LET hits == {i \in (start + 1)..Len(p) : normp[i] = "\\"}
            IN  IF hits = {} THEN 0
                ELSE CHOOSE i \in hits : \A j \in hits : i <= j
        start == IF /\ Len(p) >= 8
                    /\ Lower(SubSeq(normp, 1, 8)) = <<"\\","\\","?","\\","u","n","c","\\">>
                 THEN 8 ELSE 2
    IN  IF Len(p) < 2 THEN 0
        ELSE IF normp[1] = "\\" /\ normp[2] = "\\"
             THEN LET index == find(start)
                  IN  IF index = 0 THEN Len(p)
                      ELSE LET index2 == find(index)
                           IN  IF index2 = 0 THEN Len(p) ELSE index2 - 1
             ELSE IF normp[2] = ":" THEN 2 ELSE 0

\* os.path.basename on Windows (ntpath.split): LastSep(s, Len(s)) is the
\* index after which the base name starts, that is the last '\' or '/' behind
\* the drive, or the end of the drive when no separator follows it.
RECURSIVE LastSep(_, _)
LastSep(s, i) ==
    IF i <= splitdrive(s) THEN splitdrive(s)
    ELSE IF s[i] \in {"\\", "/"} THEN i ELSE LastSep(s, i - 1)

Basename(filepath) == SubSeq(filepath, LastSep(filepath, Len(filepath)) + 1, Len(filepath))

\* Path(filename).stem for a file name without separators, as basename
\* returns it.  LastDot(s, Len(s)) is the index of the dot at which the stem
\* ends, 0 when the name is kept whole: pathlib takes the last dot as the
\* start of a suffix only when it is neither the first nor the last character
\* of the name.  Path('.') has no name at all, its stem is empty.
RECURSIVE LastDot(_, _)
LastDot(s, i) ==
    IF i <= 1 THEN (IF s = <<".">> THEN 1 ELSE 0)
    ELSE IF s[i] = "." THEN (IF i < Len(s) THEN i ELSE 0)
         ELSE LastDot(s, i - 1)

\* A leading drive letter with its colon is no part of the name.
Stem(filename) ==
    LET name == IF /\ Len(filename) >= 2
                   /\ filename[2] = ":"
                   /\ filename[1] \in Range(UpperCase) \cup Range(LowerCase)
                THEN SubSeq(filename, 3, Len(filename))
                ELSE filename
        d == LastDot(name, Len(name))
    IN  IF d = 0 THEN name ELSE SubSeq(name, 1, d - 1)

IsAlnum(c) == c \in Range(UpperCase) \cup Range(LowerCase) \cup Range(Digits)

\* WorkingFileWatcher.process_file: table_name = "working_" + the lower-cased
\* stem with every non-alphanumeric character replaced by '_'.
WorkingTableName(filepath) ==
    LET stem == Lower(Stem(Basename(filepath)))
    IN  <<"w","o","r","k","i","n","g","_">> \o
        [i \in DOMAIN stem |-> IF IsAlnum(stem[i]) THEN stem[i] ELSE "_"]

\* ------------------------------------------------------------------- state
VARIABLES
    variant,            \* which watcher runs
    fs,                 \* the watch root: file -> [exists, mtime, size]
    file_timestamps,    \* dict path -> last recorded st_mtime
    processed_files,    \* set of paths
    initial_scan_done,  \* pattern-aware watchers: baseline taken
    pattern_mappings,   \* pattern-aware watchers: the ordered rule set
    pc,                 \* position of the poll loop
    todo,               \* paths of the tick's glob not yet examined
    filepath,           \* tick local: the file being examined
    current_mtime,      \* tick local: st_mtime of the first stat
    table_name,         \* tick local: result of get_table_name_from_path
    branch,             \* tick local: "new" or "modified" branch taken
    new_files,          \* working: list built by find_new_files
    processing_queue,   \* service: dict path -> scheduled entry
    files_to_process,   \* service: processor-thread local list
    dispatched,         \* history: bag of the enqueue calls that returned
    pre_start,          \* history: file -> its mtime at construction, 0 if absent
    hi_mtime,           \* history: highest mtime each file ever had
    regressed,          \* history: some file was given a non-fresh mtime
    rPath, rRules, rOut \* router harness: input path, rule set, result

VARIABLES
    lock,               \* service: holder of FileProcessor.lock, or "free"
    ppc,                \* service: position of the processor thread
    hpc,                \* service: position of the HTTP handler thread
    request,            \* service: JSON body of the last completion callback
    response,           \* service: status code of the last HTTP response
    last_event,         \* service: last line of processing_events.log
    current_time,       \* service: processor local, the clock reading of
                        \*   process_pending_files (see PendingEnter)
    in_trigger,         \* service: the element of files_to_process whose
                        \*   trigger call has been made and whether the call
                        \*   put its message on the list, NoEntry between calls
    running,            \* lifecycle: PollingFileWatcher.running
    threads,            \* lifecycle: position of each poll thread created
    thread,             \* lifecycle: PollingFileWatcher.thread (0 is None)
    main,               \* lifecycle: position of the thread that calls start/stop
    processor,          \* lifecycle: position of the processor thread
    ETL_TRIGGER_ENABLED,\* envelope: the module-level switch
    trigger_filepath,   \* envelope: argument of trigger_etl_task_fixed
    now,                \* envelope: int(time.time()), as decimal digits
    celery,             \* envelope: the Redis list 'celery', head first
    config_manager,     \* configurable: the configuration object loaded last
    settings,           \* configurable: which configuration each group of
                        \*   attributes set by _setup_from_config comes from
    rpc,                \* configurable: position of a reload_config call
    worker,             \* worker: the task in hand and what its callbacks did
    self_config,        \* editor: PatternConfig.config['pattern_mappings']
    config_on_disk,     \* editor: the rule set in the configuration file,
                        \*   and how often save_config has written it
    edits               \* editor: history of the add_pattern/remove_pattern calls

watcher_vars == <<file_timestamps, processed_files, initial_scan_done,
                  pattern_mappings, pc, todo, filepath, current_mtime,
                  table_name, branch, new_files, processing_queue,
                  files_to_process, dispatched>>
env_vars == <<fs, hi_mtime, regressed>>
router_vars == <<rPath, rRules, rOut>>
service_vars == <<lock, ppc, hpc, request, response, last_event,
                  current_time, in_trigger>>
lifecycle_vars == <<running, threads, thread, main, processor>>
envelope_vars == <<ETL_TRIGGER_ENABLED, trigger_filepath, now, celery>>
reload_vars == <<config_manager, settings, rpc>>
worker_vars == <<worker>>
editor_vars == <<self_config, config_on_disk, edits>>
harness_vars == <<service_vars, lifecycle_vars, envelope_vars, reload_vars,
                  worker_vars, editor_vars>>
vars == <<variant, fs, file_timestamps, processed_files, initial_scan_done,
          pattern_mappings, pc, todo, filepath, current_mtime, table_name,
          branch, new_files, processing_queue, files_to_process,
          dispatched, pre_start, hi_mtime, regressed,
          rPath, rRules, rOut,
          lock, ppc, hpc, request, response, last_event,
          current_time, in_trigger,
          running, threads, thread, main, processor,
          ETL_TRIGGER_ENABLED, trigger_filepath, now, celery,
          config_manager, settings, rpc, worker,
          self_config, config_on_disk, edits>>

\* Mutant of Put: the dict is replaced by one that holds the new key only.
PutAlone(d, k, v) == [x \in {k} |-> v]

\* dict[k] = v
Put(d, k, v) == [x \in (DOMAIN d) \cup {k} |-> IF x = k THEN v ELSE d[x]]
\* del dict[k] for every k in ks
Drop(d, ks) == [x \in (DOMAIN d) \ ks |-> d[x]]
EmptyDict == [x \in {} |-> 0]

\* One record of the dispatch history: the file, the st_mtime of the
\* observation that led to the enqueue, the table_name sent, and the mtime
\* the file has at the moment of the enqueue (0 if it is gone).
Msg(f, m, t) == [path |-> f, mtime |-> m, table |-> t, at |-> fs[f].mtime]
Record(f, m, t) == dispatched (+) SetToBag({Msg(f, m, t)})
HistoryOpen == BagCardinality(dispatched) < MaxMsgs

\* Number of dispatches issued for file f observed at mtime m.
Count(f, m) ==
    LET S == {x \in BagToSet(dispatched) : x.path = f /\ x.mtime = m}
    IN  BagCardinality([x \in S |-> dispatched[x]])
\* Number of dispatches issued for file f.
CountOf(f) ==
    LET S == {x \in BagToSet(dispatched) : x.path = f}
    IN  BagCardinality([x \in S |-> dispatched[x]])


\* ------------------------------------------------------- service process
\* The JSON body of a completion callback, data = request.json or {}: the
\* fields read with data.get are None when missing.  'filename' is the name
\* of one of the files ("f1" stands for the basename of PathOf("f1")).
Payloads == [filename : Files \cup {None}, status : {"success", "failure", None}]
NoEvent == [filepath |-> None, status |-> <<>>]
NoEntry == [path |-> NoFile, mtime |-> 0, pushed |-> FALSE]

\* FileProcessor.__init__ and the module-level instances: the lock is free,
\* no thread is inside process_pending_files, no request has been served.
ServiceInit ==
    /\ lock = "free"
    /\ ppc = "sleep"
    /\ hpc = "none"
    /\ request = [filename |-> None, status |-> None]
    /\ response = 0
    /\ last_event = NoEvent
    /\ current_time = {}
    /\ in_trigger = NoEntry

\* ----------------------------------------------------------------- worker
\* The Celery worker has no task in hand.  worker holds the position of the
\* task (idle, running, returned, raised, done), the args and kwargs it was
\* invoked with, its outcome, the POSTs to /processing_complete its
\* callbacks made, and the number of tasks handled so far.
WorkerInit ==
    worker = [pos |-> "idle", args |-> <<>>, kwargs |-> EmptyDict,
              outcome |-> None, posts |-> <<>>, handled |-> 0]

\* ----------------------------------------------------------------- editor
\* No PatternConfig of the configuration manager exists yet; the file on
\* disk is the default one.
EditorInit ==
    /\ self_config = <<>>
    /\ config_on_disk = [mappings |-> PATTERN_TABLE_MAPPING, writes |-> 0]
    /\ edits = <<>>

\* -------------------------------------------------------------- lifecycle
\* PollingFileWatcher.__init__: running = False, thread = None; no thread
\* exists yet.  The lifecycle of the threads is followed in SpecLifecycle
\* only; in the other specifications the poll loop is taken as started and
\* these variables keep their first values.
ThreadIds == 1..MaxThreads

LifecycleInit ==
    /\ running = FALSE
    /\ threads = [t \in ThreadIds |-> "unborn"]
    /\ thread = 0
    /\ main = "serving"
    /\ processor = "unborn"

\* --------------------------------------------------------------- envelope
\* Text is a sequence of symbols.  A symbol is one character of a file path,
\* a punctuation character, or a whole word of the fixed vocabulary of
\* trigger_etl_task_fixed ("headers", "application/json", ...): none of
\* these words holds a quote or a backslash, so no conversion looks inside
\* one.  Word(word) is the str made of that word.
Word(word) == <<word>>

\* A Python value: J(t, v) with t its type.  A str or bytes carries its
\* text, an int its decimal digits, a list its items, a dict its items as
\* records [k, v] in insertion order; True and None carry nothing.
J(t, v) == [t |-> t, v |-> v]
JTrue == J("true", <<>>)
JNone == J("null", <<>>)

\* str.encode('utf-8'): the bytes object with the text's code units.
EncodeUtf8(text) == J("bytes", text)

\* json.dumps(x) with the default separators: ok is FALSE where json.dumps
\* raises TypeError (a bytes object anywhere inside x), else text is the
\* document.  Inside a string the quote and the backslash are escaped.
Dumps(x) ==
    LET TypeError == [ok |-> FALSE, text |-> <<>>]
        Ok(text) == [ok |-> TRUE, text |-> text]
        RECURSIVE esc(_, _)
        esc(s, i) ==
            IF i > Len(s) THEN <<>>
            ELSE (IF s[i] \in {"\"", "\\"} THEN <<"\\", s[i]>> ELSE <<s[i]>>)
                 \o esc(s, i + 1)
        quote(s) == <<"\"">> \o esc(s, 1) \o <<"\"">>
        RECURSIVE dump(_)
        RECURSIVE items(_, _)
        RECURSIVE members(_, _)
        dump(y) ==
            IF y.t = "str" THEN Ok(quote(y.v))
            ELSE IF y.t = "true" THEN Ok(<<"true">>)
            ELSE IF y.t = "null" THEN Ok(<<"null">>)
            ELSE IF y.t = "int" THEN Ok(y.v)
            ELSE IF y.t = "list"
            THEN LET b == items(y.v, 1)
                 IN  IF b.ok THEN Ok(<<"[">> \o b.text \o <<"]">>) ELSE TypeError
            ELSE IF y.t = "dict"
            THEN LET b == members(y.v, 1)
                 IN  IF b.ok THEN Ok(<<"{">> \o b.text \o <<"}">>) ELSE TypeError
            ELSE TypeError
        items(xs, i) ==
            IF i > Len(xs) THEN Ok(<<>>)
            ELSE LET h == dump(xs[i])
                     r == items(xs, i + 1)
                 IN  IF h.ok /\ r.ok
                     THEN Ok(h.text \o (IF i < Len(xs) THEN <<",", " ">> ELSE <<>>)
                             \o r.text)
                     ELSE TypeError
        members(ms, i) ==
            IF i > Len(ms) THEN Ok(<<>>)
            ELSE LET h == dump(ms[i].v)
                     r == members(ms, i + 1)
                 IN  IF h.ok /\ r.ok
                     THEN Ok(quote(ms[i].k) \o <<":", " ">> \o h.text
                             \o (IF i < Len(ms) THEN <<",", " ">> ELSE <<>>)
                             \o r.text)
                     ELSE TypeError
    IN  dump(x)

\* repr(x) of a list or dict of str and True: a str is put between single
\* quotes with its backslashes doubled (no path of the model holds a single
\* quote, so the quote character never switches).
Repr(x) ==
    LET RECURSIVE esc(_, _)
        esc(s, i) ==
            IF i > Len(s) THEN <<>>
            ELSE (IF s[i] = "\\" THEN <<"\\", "\\">> ELSE <<s[i]>>) \o esc(s, i + 1)
        quote(s) == <<"'">> \o esc(s, 1) \o <<"'">>
        RECURSIVE repr(_)
        RECURSIVE items(_, _)
        RECURSIVE members(_, _)
        repr(y) ==
            IF y.t = "str" THEN quote(y.v)
            ELSE IF y.t = "true" THEN <<"True">>
            ELSE IF y.t = "list" THEN <<"[">> \o items(y.v, 1) \o <<"]">>
            ELSE <<"{">> \o members(y.v, 1) \o <<"}">>
        items(xs, i) ==
            IF i > Len(xs) THEN <<>>
            ELSE repr(xs[i]) \o (IF i < Len(xs) THEN <<",", " ">> ELSE <<>>)
                 \o items(xs, i + 1)
        members(ms, i) ==
            IF i > Len(ms) THEN <<>>
            ELSE quote(ms[i].k) \o <<":", " ">> \o repr(ms[i].v)
                 \o (IF i < Len(ms) THEN <<",", " ">> ELSE <<>>)
                 \o members(ms, i + 1)
    IN  repr(x)

\* The reference deserializer, json.loads(text): ok is FALSE where the text
\* is not one JSON document, else val is the value read.  An escaped
\* character inside a string stands for itself.
Loads(text) ==
    LET n == Len(text)
        Fail == [ok |-> FALSE, val |-> JNone, next |-> 0]
        Ok(val, next) == [ok |-> TRUE, val |-> val, next |-> next]
        At(i) == IF i <= n THEN text[i] ELSE "EOF"
        RECURSIVE ws(_)
        ws(i) == IF At(i) = " " THEN ws(i + 1) ELSE i
        RECURSIVE str(_, _)
        str(i, acc) ==
            IF i > n THEN Fail
            ELSE IF text[i] = "\"" THEN Ok(acc, i + 1)
            ELSE IF text[i] = "\\"
            THEN IF At(i + 1) \in {"\"", "\\", "/"}
                 THEN str(i + 2, Append(acc, text[i + 1]))
                 ELSE Fail
            ELSE str(i + 1, Append(acc, text[i]))
        RECURSIVE digits(_, _)
        digits(i, acc) ==
            IF At(i) \in Range(Digits) THEN digits(i + 1, Append(acc, text[i]))
            ELSE Ok(J("int", acc), i)
        RECURSIVE value(_)
        RECURSIVE elements(_, _)
        RECURSIVE members(_, _)
        value(i) ==
            LET j == ws(i)
                c == At(j)
            IN  IF c = "\""
                THEN LET r == str(j + 1, <<>>)
                     IN  IF r.ok THEN Ok(J("str", r.val), r.next) ELSE Fail
                ELSE IF c = "true" THEN Ok(JTrue, j + 1)
                ELSE IF c = "null" THEN Ok(JNone, j + 1)
                ELSE IF c \in Range(Digits) THEN digits(j, <<>>)
                ELSE IF c = "["
                THEN IF At(ws(j + 1)) = "]"
                     THEN Ok(J("list", <<>>), ws(j + 1) + 1)
                     ELSE elements(j + 1, <<>>)
                ELSE IF c = "{"
                THEN IF At(ws(j + 1)) = "}"
                     THEN Ok(J("dict", <<>>), ws(j + 1) + 1)
                     ELSE members(j + 1, <<>>)
                ELSE Fail
        elements(i, acc) ==
            LET e == value(i)
                k == ws(e.next)
            IN  IF ~e.ok THEN Fail
                ELSE IF At(k) = "," THEN elements(k + 1, Append(acc, e.val))
                ELSE IF At(k) = "]" THEN Ok(J("list", Append(acc, e.val)), k + 1)
                ELSE Fail
        members(i, acc) ==
            LET j == ws(i)
                key == str(j + 1, <<>>)
                k == ws(key.next)
                e == value(k + 1)
                m == ws(e.next)
                item == [k |-> key.val, v |-> e.val]
            IN  IF At(j) # "\"" \/ ~key.ok \/ At(k) # ":" \/ ~e.ok THEN Fail
                ELSE IF At(m) = "," THEN members(m + 1, Append(acc, item))
                ELSE IF At(m) = "}" THEN Ok(J("dict", Append(acc, item)), m + 1)
                ELSE Fail
        doc == value(1)
    IN  IF doc.ok /\ ws(doc.next) = n + 1
        THEN [ok |-> TRUE, val |-> doc.val]
        ELSE [ok |-> FALSE, val |-> JNone]

\* dict[key] on a dict value; None stands for a missing key.
Get(d, key) ==
    IF d.t = "dict" /\ \E i \in DOMAIN d.v : d.v[i].k = key
    THEN d.v[CHOOSE i \in DOMAIN d.v : d.v[i].k = key].v
    ELSE JNone

\* The inputs of one call of trigger_etl_task_fixed: a file path of at most
\* MaxLen characters, whose alphabet holds both path separators and the two
\* characters JSON escapes, and the clock's reading.
EnvelopeAlphabet == {"a", "\\", "/", "\"", ","}
EnvelopePaths == UNION {[1..k -> EnvelopeAlphabet] : k \in 1..MaxLen}
Times == {<<"7">>, <<"1", "7">>}

\* task_data of trigger_etl_task_fixed, the fields that reach the message.
TaskName == Word("etl_processor.enhanced_tasks.process_excel_file")
TaskArgs(filename) == J("list", <<J("str", filename)>>)
TaskKwargs(fp) ==
    J("dict", << [k |-> Word("auto_triggered"), v |-> JTrue],
                 [k |-> Word("filepath"), v |-> J("str", fp)] >>)
TaskId(filename, time) == filename \o <<"_">> \o time

\* The body as written: json.dumps([args, kwargs, {}]).
BodyText(filename, fp) ==
    Dumps(J("list", <<TaskArgs(filename), TaskKwargs(fp), J("dict", <<>>)>>)).text

\* celery_message of trigger_etl_task_fixed.
celery_message(filename, fp, time) ==
    J("dict", <<
      [k |-> Word("body"), v |-> EncodeUtf8(BodyText(filename, fp))],
      [k |-> Word("headers"), v |-> J("dict", <<
          [k |-> Word("lang"), v |-> J("str", Word("py"))],
          [k |-> Word("task"), v |-> J("str", TaskName)],
          [k |-> Word("id"), v |-> J("str", TaskId(filename, time))],
          [k |-> Word("shadow"), v |-> JNone],
          [k |-> Word("eta"), v |-> JNone],
          [k |-> Word("expires"), v |-> JNone],
          [k |-> Word("group"), v |-> JNone],
          [k |-> Word("group_index"), v |-> JNone],
          [k |-> Word("retries"), v |-> J("int", <<"0">>)],
          [k |-> Word("timelimit"), v |-> J("list", <<JNone, JNone>>)],
          [k |-> Word("root_id"), v |-> J("str", TaskId(filename, time))],
          [k |-> Word("parent_id"), v |-> JNone],
          [k |-> Word("argsrepr"), v |-> J("str", Repr(TaskArgs(filename)))],
          [k |-> Word("kwargsrepr"), v |-> J("str", Repr(TaskKwargs(fp)))] >>)],
      [k |-> Word("content-type"), v |-> J("str", Word("application/json"))],
      [k |-> Word("content-encoding"), v |-> J("str", Word("utf-8"))] >>)

\* The module as imported and no call made yet: nothing on the list.
EnvelopeInit ==
    /\ ETL_TRIGGER_ENABLED = TRUE
    /\ trigger_filepath = <<>>
    /\ now = <<"0">>
    /\ celery = <<>>

\* ---------------------------------------------------------- configuration
\* What the configurable watcher reads from its configuration file.  A file
\* is one of two versions (the second adds the rule 'misc' -> staging_misc
\* and differs in the watcher and data-quality settings), its pattern rules
\* are all mappings with a table ("mappings"), or one is not a mapping, or
\* one has no table, and its poll_interval is an int or a float.
ConfigVersions == {0, 1}
ConfigShapes ==
    [version : ConfigVersions,
     rules : {"mappings", "not_a_mapping", "no_table"},
     poll_interval : {"int", "float"}]
DefaultConfig == [version |-> 0, rules |-> "mappings", poll_interval |-> "int"]

\* PatternConfig.validate_config: every rule a dict with a 'table', and
\* poll_interval an int.
validate_config(config) ==
    config.rules = "mappings" /\ config.poll_interval = "int"

\* PatternConfig.get_pattern_mappings returns; it raises (TypeError,
\* KeyError) at config['table'] where a rule is not a mapping or has no
\* table.
MappingsLoad(config) == config.rules = "mappings"

\* PatternConfig.get_pattern_mappings of a file of version v.
MappingsOf(v) ==
    IF v = 0 THEN PATTERN_TABLE_MAPPING
    ELSE PATTERN_TABLE_MAPPING
         \o << [pattern |-> <<"m","i","s","c">>, table |-> "staging_misc"] >>

\* PatternConfig(config_file) followed by _setup_from_config, in the
\* constructor: every attribute comes from the file loaded.
Loaded(shapes) ==
    /\ config_manager \in shapes
    /\ settings = [watcher |-> config_manager.version,
                   data_quality |-> config_manager.version]
    /\ rpc = "none"

\* ----------------------------------------------------------- construction
\* The state at the start of the constructor: empty tracker, any files
\* already under the watch root, and a configuration file of one of the
\* given shapes.  The service and working watchers have no initial scan and
\* are ready at once.
InitWith(shapes) ==
    /\ variant \in Variants
    /\ Loaded(shapes)
    /\ fs \in [Files -> FileStates]
    /\ ~PatternAware(variant) => \A f \in Files : fs[f] = Absent
    /\ file_timestamps = EmptyDict
    /\ processed_files = {}
    /\ initial_scan_done = FALSE
    /\ pattern_mappings = MappingsOf(config_manager.version)
    /\ pc = IF PatternAware(variant) THEN "construct" ELSE "idle"
    /\ todo = {}
    /\ filepath = NoFile
    /\ current_mtime = 0
    /\ table_name = None
    /\ branch = None
    /\ new_files = <<>>
    /\ processing_queue = EmptyDict
    /\ files_to_process = {}
    /\ dispatched = EmptyBag
    /\ pre_start = [f \in Files |-> fs[f].mtime]
    /\ hi_mtime = [f \in Files |-> fs[f].mtime]
    /\ regressed = FALSE
    /\ rPath = <<>>
    /\ rRules = <<>>
    /\ rOut = None
    /\ ServiceInit
    /\ WorkerInit
    /\ EditorInit
    /\ LifecycleInit
    /\ EnvelopeInit

\* The program as shipped: the default configuration file.
Init == InitWith({DefaultConfig})

Existing == {f \in Files : fs[f].exists}

\* _initial_file_scan: file_timestamps[filepath] = stat_info.st_mtime for
\* the files the scan got to.
BaselineOf(recorded) == [f \in recorded |-> fs[f].mtime]

\* _initial_file_scan, run to completion.
InitialScan ==
    /\ pc = "construct"
    /\ file_timestamps' = BaselineOf(Existing)
    /\ initial_scan_done' = TRUE
    /\ pc' = "idle"
    /\ UNCHANGED <<variant, fs, processed_files, pattern_mappings, todo,
                   filepath, current_mtime, table_name, branch, new_files,
                   processing_queue, files_to_process, dispatched,
                   pre_start, hi_mtime, regressed, router_vars,
                   harness_vars>>

\* _initial_file_scan when os.stat raises at some file: the except clause
\* around the whole loop ends the scan, the files enumerated after it stay
\* unrecorded, and initial_scan_done is set all the same.
InitialScanFault ==
    /\ pc = "construct"
    /\ \E recorded \in SUBSET Existing :
          /\ recorded # Existing
          /\ file_timestamps' = BaselineOf(recorded)
    /\ initial_scan_done' = TRUE
    /\ pc' = "idle"
    /\ UNCHANGED <<variant, fs, processed_files, pattern_mappings, todo,
                   filepath, current_mtime, table_name, branch, new_files,
                   processing_queue, files_to_process, dispatched,
                   pre_start, hi_mtime, regressed, router_vars,
                   harness_vars>>

\* ------------------------------------------------------------ environment
\* Files change while the watcher sleeps or waits: between two ticks, in the
\* settle sleep, at the lock of schedule_file_processing, in the
\* process-delay sleep.  The stats of one enumeration are not
\* interleaved with writes.
Asleep == pc \in {"idle", "settle", "schedule", "delay", "run"}

Max(a, b) == IF a >= b THEN a ELSE b

\* History of the mtimes handed out: regressed becomes TRUE when a file is
\* given an mtime that is not later than every mtime it had before (a
\* restored or copied file keeps its old timestamp); after that the
\* high-water marks are no longer kept.
Stamp(f, m) ==
    /\ regressed' = (regressed \/ m <= hi_mtime[f])
    /\ hi_mtime' = IF regressed \/ m <= hi_mtime[f]
                   THEN [g \in Files |-> 0]
                   ELSE [hi_mtime EXCEPT ![f] = m]

\* A file appears under the watch root.
Create(f, m, s) ==
    /\ Asleep
    /\ ~fs[f].exists
    /\ fs' = [fs EXCEPT ![f] = [exists |-> TRUE, mtime |-> m, size |-> s]]
    /\ Stamp(f, m)
    /\ UNCHANGED <<variant, watcher_vars, pre_start, router_vars,
                   harness_vars>>

\* A file is rewritten: its mtime changes, its size may.
Modify(f, m, s) ==
    /\ Asleep
    /\ fs[f].exists
    /\ m # fs[f].mtime
    /\ fs' = [fs EXCEPT ![f] = [exists |-> TRUE, mtime |-> m, size |-> s]]
    /\ Stamp(f, m)
    /\ UNCHANGED <<variant, watcher_vars, pre_start, router_vars,
                   harness_vars>>

\* A file is removed.
Delete(f) ==
    /\ Asleep
    /\ fs[f].exists
    /\ fs' = [fs EXCEPT ![f] = Absent]
    /\ UNCHANGED <<variant, watcher_vars, pre_start, hi_mtime,
                   regressed, router_vars,
                   harness_vars>>

\* time.time() advances by one unit.  An entry of processing_queue keeps its
\* scheduled time as the time still to wait, scheduled_time - time.time(),
\* which is all that "current_time >= scheduled_time" reads.
Advance ==
    /\ variant = "service"
    /\ \E f \in DOMAIN processing_queue : processing_queue[f].wait > 0
    /\ processing_queue' =
          [f \in DOMAIN processing_queue |->
              [processing_queue[f] EXCEPT !.wait = Max(0, @ - 1)]]
    /\ UNCHANGED <<variant, env_vars, file_timestamps, processed_files,
                   initial_scan_done, pattern_mappings, pc, todo, filepath,
                   current_mtime, table_name, branch, new_files,
                   files_to_process, dispatched, pre_start, router_vars,
                   harness_vars>>

\* ------------------------------------------------------- the tick, by step
\* Mutant of IsKnownUnchanged: the recorded mtime is never consulted.
NeverKnownUnchanged(f, m) == FALSE

\* "filepath in self.file_timestamps and self.file_timestamps[filepath] ==
\* current_mtime": nothing to do for this file in this tick.
IsKnownUnchanged(f, m) ==
    f \in DOMAIN file_timestamps /\ file_timestamps[f] = m

\* "new_stat.st_mtime == current_mtime" after the settle sleep.
StillStable(new_stat, m) == new_stat.mtime = m

\* "new_stat.st_size > 0"
NotEmpty(new_stat) == new_stat.size > 0

\* Modified branch of the service and working watchers:
\* "if filepath not in self.processed_files".
NotYetProcessed(f) == f \notin processed_files

\* Mutant of validate_file: a file exactly at the limit is refused too.
validate_file_below(f) == fs[f].size < max_file_size_mb /\ fs[f].size # 0

\* ConfigurablePatternWatcher.validate_file: False when the size is over
\* max_file_size_mb, False for an empty file (skip_empty_files).
validate_file(f) == fs[f].size <= max_file_size_mb /\ fs[f].size # 0

\* read_file_to_dataframe accepts the file: it is still there and pandas
\* finds rows in it.
Readable(f) == fs[f].exists /\ fs[f].size > 0

Locals == <<filepath, current_mtime, table_name, branch>>
ResetLocals ==
    /\ filepath' = NoFile
    /\ current_mtime' = 0
    /\ table_name' = None
    /\ branch' = None

\* One pass of the poll loop begins: glob.glob lists the files.
TickStart ==
    /\ pc = "idle"
    /\ PatternAware(variant) => initial_scan_done
    /\ pc' = "scan"
    /\ todo' = Existing
    /\ UNCHANGED <<variant, env_vars, file_timestamps, processed_files,
                   initial_scan_done, pattern_mappings, Locals, new_files,
                   processing_queue, files_to_process, dispatched,
                   pre_start, router_vars,
                   harness_vars>>

\* find_and_process_files, loop body up to time.sleep(2): isfile, first
\* stat, the unchanged test, classification, and the timestamp update.
ExaminePattern(f) ==
    /\ PatternAware(variant)
    /\ pc = "scan"
    /\ f \in todo
    /\ todo' = todo \ {f}
    /\ IF ~fs[f].exists \/ IsKnownUnchanged(f, fs[f].mtime)
       THEN UNCHANGED <<file_timestamps, pc, Locals>>
       ELSE LET m == fs[f].mtime
                t == get_table_name_from_path(PathOf(f), pattern_mappings)
                new == f \notin DOMAIN file_timestamps
            IN  IF t = None
                THEN /\ file_timestamps' =
                           IF new THEN Put(file_timestamps, f, m) ELSE file_timestamps
                     /\ UNCHANGED <<pc, Locals>>
                ELSE /\ file_timestamps' = Put(file_timestamps, f, m)
                     /\ pc' = "settle"
                     /\ filepath' = f
                     /\ current_mtime' = m
                     /\ table_name' = t
                     /\ branch' = IF new THEN "new" ELSE "modified"
    /\ UNCHANGED <<variant, env_vars, processed_files, initial_scan_done,
                   pattern_mappings, new_files, processing_queue,
                   files_to_process, dispatched, pre_start, router_vars,
                   harness_vars>>

\* find_and_process_files after time.sleep(2): the re-stat and the two
\* "skipping" tests.  A file that vanished makes os.stat raise, which the
\* except clause around the whole scan turns into the end of the tick.
SettlePattern ==
    /\ PatternAware(variant)
    /\ pc = "settle"
    /\ IF ~fs[filepath].exists
       THEN /\ pc' = "idle"
            /\ todo' = {}
            /\ ResetLocals
       ELSE IF StillStable(fs[filepath], current_mtime) /\ NotEmpty(fs[filepath])
            THEN /\ pc' = "delay"
                 /\ UNCHANGED <<todo, Locals>>
            ELSE /\ pc' = "scan"
                 /\ ResetLocals
                 /\ UNCHANGED todo
    /\ UNCHANGED <<variant, env_vars, file_timestamps, processed_files,
                   initial_scan_done, pattern_mappings, new_files,
                   processing_queue, files_to_process, dispatched,
                   pre_start, router_vars,
                   harness_vars>>

\* process_file(filepath, table_name) after the process_delay sleep:
\* validate (configurable watcher only), read, send_task('process_dataframe', ..., table_name=...),
\* processed_files.add.
DeliverPattern ==
    /\ PatternAware(variant)
    /\ pc = "delay"
    /\ IF (variant = "configurable" => validate_file(filepath))
          /\ Readable(filepath)
       THEN /\ dispatched' = Record(filepath, current_mtime, table_name)
            /\ processed_files' = processed_files \cup {filepath}
       ELSE UNCHANGED <<dispatched, processed_files>>
    /\ pc' = "scan"
    /\ ResetLocals
    /\ UNCHANGED <<variant, env_vars, file_timestamps, initial_scan_done,
                   pattern_mappings, todo, new_files, processing_queue,
                   files_to_process, pre_start, router_vars,
                   harness_vars>>

\* _check_file / find_new_files, up to the time.sleep(2) of either branch.
ExamineBasic(f) ==
    /\ ~PatternAware(variant)
    /\ pc = "scan"
    /\ f \in todo
    /\ todo' = todo \ {f}
    /\ IF ~fs[f].exists \/ IsKnownUnchanged(f, fs[f].mtime)
       THEN UNCHANGED <<file_timestamps, pc, Locals>>
       ELSE LET m == fs[f].mtime
                new == f \notin DOMAIN file_timestamps
            IN  /\ file_timestamps' = Put(file_timestamps, f, m)
                /\ IF new \/ NotYetProcessed(f)
                   THEN /\ pc' = "settle"
                        /\ filepath' = f
                        /\ current_mtime' = m
                        /\ branch' = IF new THEN "new" ELSE "modified"
                        /\ UNCHANGED table_name
                   ELSE UNCHANGED <<pc, Locals>>
    /\ UNCHANGED <<variant, env_vars, processed_files, initial_scan_done,
                   pattern_mappings, new_files, processing_queue,
                   files_to_process, dispatched, pre_start, router_vars,
                   harness_vars>>

\* Whether the branch that slept goes on to schedule the file: the new-file
\* branch re-stats and wants the same mtime and a non-zero size, the
\* modified branch schedules without looking again.
GoesOn(br, new_stat, m) ==
    IF br = "new" THEN StillStable(new_stat, m) /\ NotEmpty(new_stat) ELSE TRUE

\* schedule_file_processing: processing_queue[filepath] = time.time() +
\* ETL_PROCESS_DELAY.  The entry also remembers the observed mtime.
Schedule(f, m) ==
    Put(processing_queue, f, [wait |-> ETL_PROCESS_DELAY, mtime |-> m])

\* find_new_files after time.sleep(2).  In the new-file branch a vanished
\* file makes os.stat raise; the except clause around the whole loop ends
\* the enumeration and run_once goes on with the list built so far.
SettleWorking ==
    /\ variant = "working"
    /\ pc = "settle"
    /\ IF branch = "new" /\ ~fs[filepath].exists
       THEN /\ pc' = "run"
            /\ todo' = {}
            /\ UNCHANGED new_files
       ELSE /\ pc' = "scan"
            /\ UNCHANGED todo
            /\ IF GoesOn(branch, fs[filepath], current_mtime)
               THEN new_files' = Append(new_files, [path |-> filepath, mtime |-> current_mtime, branch |-> branch])
               ELSE UNCHANGED new_files
    /\ ResetLocals
    /\ UNCHANGED <<variant, env_vars, file_timestamps, processed_files,
                   initial_scan_done, pattern_mappings, processing_queue,
                   files_to_process, dispatched, pre_start,
                   router_vars, harness_vars>>

\* The glob is exhausted: the tick ends; run_once goes on to its list.
ScanEnd ==
    /\ pc = "scan"
    /\ todo = {}
    /\ pc' = IF variant = "working" THEN "run" ELSE "idle"
    /\ UNCHANGED <<variant, env_vars, file_timestamps, processed_files,
                   initial_scan_done, pattern_mappings, todo, Locals,
                   new_files, processing_queue, files_to_process,
                   dispatched, pre_start, router_vars,
                   harness_vars>>

\* run_once, one element of new_files: sleep(PROCESS_DELAY), then
\* process_file: read, send_task('process_dataframe', ...), processed_files.add.
RunDeliver ==
    /\ variant = "working"
    /\ pc = "run"
    /\ new_files # <<>>
    /\ LET e == Head(new_files)
       IN  IF Readable(e.path)
           THEN /\ dispatched' = Record(e.path, e.mtime, WorkingTableName(PathOf(e.path)))
                /\ processed_files' = processed_files \cup {e.path}
           ELSE UNCHANGED <<dispatched, processed_files>>
    /\ new_files' = Tail(new_files)
    /\ UNCHANGED <<variant, env_vars, file_timestamps, initial_scan_done,
                   pattern_mappings, pc, todo, Locals, processing_queue,
                   files_to_process, pre_start, router_vars,
                   harness_vars>>

\* run_once returns.
RunEnd ==
    /\ variant = "working"
    /\ pc = "run"
    /\ new_files = <<>>
    /\ pc' = "idle"
    /\ UNCHANGED <<variant, env_vars, file_timestamps, processed_files,
                   initial_scan_done, pattern_mappings, todo, Locals,
                   new_files, processing_queue, files_to_process,
                   dispatched, pre_start, router_vars,
                   harness_vars>>

\* Mutant of Due: every pending entry counts as due.
DueAny == DOMAIN processing_queue

\* process_pending_files, "current_time >= scheduled_time" for the entries of
\* processing_queue, decided with the reading taken before the lock was
\* asked for.
Due == current_time \cap DOMAIN processing_queue


\* ------------------------------------------------------------------ faults
\* The first os.stat of a file raises (locked, permission denied, removed
\* between isfile and stat).  The pattern-aware watchers and find_new_files
\* catch it around the whole loop, _check_file catches it per file.
StatFault(f) ==
    /\ pc = "scan"
    /\ f \in todo
    /\ fs[f].exists
    /\ IF variant = "service"
       THEN /\ todo' = todo \ {f}
            /\ UNCHANGED pc
       ELSE /\ todo' = {}
            /\ pc' = IF variant = "working" THEN "run" ELSE "idle"
    /\ UNCHANGED <<variant, env_vars, file_timestamps, processed_files,
                   initial_scan_done, pattern_mappings, Locals, new_files,
                   processing_queue, files_to_process, dispatched,
                   pre_start, router_vars,
                   harness_vars>>

\* The os.stat after the settle sleep raises although the file is there.
SettleFault ==
    /\ pc = "settle"
    /\ fs[filepath].exists
    /\ PatternAware(variant) \/ branch = "new"
    /\ IF variant = "service"
       THEN /\ pc' = "scan"
            /\ UNCHANGED todo
       ELSE /\ todo' = {}
            /\ pc' = IF variant = "working" THEN "run" ELSE "idle"
    /\ ResetLocals
    /\ UNCHANGED <<variant, env_vars, file_timestamps, processed_files,
                   initial_scan_done, pattern_mappings, new_files,
                   processing_queue, files_to_process, dispatched,
                   pre_start, router_vars,
                   harness_vars>>

\* process_file fails although the file is readable (pd.read_* raises, the
\* frame has no rows, or send_task raises): it returns False.
DeliverFault ==
    /\ PatternAware(variant)
    /\ pc = "delay"
    /\ pc' = "scan"
    /\ ResetLocals
    /\ UNCHANGED <<variant, env_vars, file_timestamps, processed_files,
                   initial_scan_done, pattern_mappings, todo, new_files,
                   processing_queue, files_to_process, dispatched,
                   pre_start, router_vars,
                   harness_vars>>

RunFault ==
    /\ variant = "working"
    /\ pc = "run"
    /\ new_files # <<>>
    /\ new_files' = Tail(new_files)
    /\ UNCHANGED <<variant, env_vars, file_timestamps, processed_files,
                   initial_scan_done, pattern_mappings, pc, todo, Locals,
                   processing_queue, files_to_process, dispatched,
                   pre_start, router_vars,
                   harness_vars>>

\* ----------------------------------------------- service process, by thread
\* The service watcher runs on three kinds of thread: the poll thread
\* (_check_file and schedule_file_processing), the processor thread
\* (process_pending_files) and the HTTP handlers.  Their steps are split at
\* every acquisition and release of FileProcessor.lock and at every call that
\* waits (time.sleep, r.lpush).
\* "with self.lock:" is entered by thread t.
Acquire(t) == lock = "free" /\ lock' = t

\* Mutant of Release: the with-block is left without giving the lock back.
ReleaseNever(t) == lock = t /\ lock' = t

\* "with self.lock:" is left by thread t.
Release(t) == lock = t /\ lock' = "free"

\* Poll thread, _check_file after time.sleep(2) and up to the call of
\* schedule_file_processing: the re-stat of the new-file branch (a vanished
\* file makes os.stat raise, which _check_file swallows).
SettleCheck ==
    /\ variant = "service"
    /\ pc = "settle"
    /\ IF \/ branch = "new" /\ ~fs[filepath].exists
          \/ ~GoesOn(branch, fs[filepath], current_mtime)
       THEN /\ pc' = "scan"
            /\ ResetLocals
       ELSE /\ pc' = "schedule"
            /\ UNCHANGED Locals
    /\ UNCHANGED <<variant, env_vars, file_timestamps, processed_files,
                   initial_scan_done, pattern_mappings, todo, new_files,
                   processing_queue, files_to_process, dispatched, pre_start,
                   router_vars, harness_vars>>

\* Poll thread, schedule_file_processing: "with self.lock:", where the
\* thread waits as long as another thread holds the lock.
ScheduleAcquire ==
    /\ variant = "service"
    /\ pc = "schedule"
    /\ Acquire("poll")
    /\ pc' = "scheduling"
    /\ UNCHANGED <<variant, env_vars, file_timestamps, processed_files,
                   initial_scan_done, pattern_mappings, todo, Locals,
                   new_files, processing_queue, files_to_process, dispatched,
                   pre_start, router_vars, ppc, hpc, request, response,
                   last_event, current_time, in_trigger,
                   lifecycle_vars, envelope_vars, reload_vars,
                   worker_vars, editor_vars>>

\* Poll thread, schedule_file_processing: the body of the with-block and
\* its end.  The new scheduled_time is time.time() + ETL_PROCESS_DELAY, which
\* lies after every reading of the clock taken before, so a processor thread
\* that has read the clock already does not find this entry due.
ScheduleRelease ==
    /\ variant = "service"
    /\ pc = "scheduling"
    /\ processing_queue' = Schedule(filepath, current_mtime)
    /\ current_time' = current_time \ {filepath}
    /\ Release("poll")
    /\ pc' = "scan"
    /\ ResetLocals
    /\ UNCHANGED <<variant, env_vars, file_timestamps, processed_files,
                   initial_scan_done, pattern_mappings, todo, new_files,
                   files_to_process, dispatched, pre_start, router_vars,
                   ppc, hpc, request, response, last_event, in_trigger,
                   lifecycle_vars, envelope_vars, reload_vars,
                   worker_vars, editor_vars>>

\* Processor thread, process_pending_files: current_time = time.time() is
\* read before the lock is asked for.  The reading is kept as what the loop
\* under the lock reads of it: the paths whose scheduled_time it has reached.
PendingEnter ==
    /\ variant = "service"
    /\ ppc = "sleep"
    /\ current_time' =
          {f \in DOMAIN processing_queue : processing_queue[f].wait <= 0}
    /\ ppc' = "enter"
    /\ UNCHANGED <<variant, env_vars, watcher_vars, pre_start, router_vars,
                   lock, hpc, request, response, last_event, in_trigger,
                   lifecycle_vars, envelope_vars, reload_vars,
                   worker_vars, editor_vars>>

\* Processor thread, process_pending_files: "with self.lock:", where the
\* thread waits as long as another thread holds the lock.
PendingAcquire ==
    /\ variant = "service"
    /\ ppc = "enter"
    /\ Acquire("processor")
    /\ ppc' = "locked"
    /\ UNCHANGED <<variant, env_vars, watcher_vars, pre_start, router_vars,
                   hpc, request, response, last_event, current_time,
                   in_trigger,
                   lifecycle_vars, envelope_vars, reload_vars,
                   worker_vars, editor_vars>>

\* Processor thread, process_pending_files: the loop under the lock moves
\* the due entries to files_to_process; the with-block ends.
PendingRelease ==
    /\ variant = "service"
    /\ ppc = "locked"
    /\ files_to_process' =
          {[path |-> f, mtime |-> processing_queue[f].mtime] : f \in Due}
    /\ processing_queue' = Drop(processing_queue, Due)
    /\ current_time' = {}
    /\ Release("processor")
    /\ ppc' = IF Due = {} THEN "sleep" ELSE "trigger"
    /\ UNCHANGED <<variant, env_vars, file_timestamps, processed_files,
                   initial_scan_done, pattern_mappings, pc, todo, Locals,
                   new_files, dispatched, pre_start, router_vars,
                   hpc, request, response, last_event, in_trigger,
                   lifecycle_vars, envelope_vars, reload_vars,
                   worker_vars, editor_vars>>

\* Processor thread, one round of "for filepath in files_to_process":
\* trigger_etl_task_minimal_test is called and r.lpush puts its message on
\* the list.  The thread is inside the call (ppc = "lpush").
Fire(e) ==
    /\ variant = "service"
    /\ ppc = "trigger"
    /\ e \in files_to_process
    /\ dispatched' = Record(e.path, e.mtime, None)
    /\ in_trigger' = [path |-> e.path, mtime |-> e.mtime, pushed |-> TRUE]
    /\ ppc' = "lpush"
    /\ UNCHANGED <<variant, env_vars, file_timestamps, processed_files,
                   initial_scan_done, pattern_mappings, pc, todo, Locals,
                   new_files, processing_queue, files_to_process, pre_start,
                   router_vars, lock, hpc, request, response, last_event,
                   current_time,
                   lifecycle_vars, envelope_vars, reload_vars,
                   worker_vars, editor_vars>>

\* Mutant of FireFault: the exception leaves the for loop, the rest of the
\* sweep is dropped.
FireFaultEndsSweep(e) ==
    /\ variant = "service"
    /\ ppc = "trigger"
    /\ e \in files_to_process
    /\ files_to_process' = {}
    /\ UNCHANGED <<variant, env_vars, file_timestamps, processed_files,
                   initial_scan_done, pattern_mappings, pc, todo, Locals,
                   new_files, processing_queue, dispatched, pre_start,
                   router_vars, service_vars,
                   lifecycle_vars, envelope_vars, reload_vars,
                   worker_vars, editor_vars>>

\* The same round when r.lpush raises: nothing is put on the list, and the
\* exception is logged inside trigger_etl_task_minimal_test.
FireFault(e) ==
    /\ variant = "service"
    /\ ppc = "trigger"
    /\ e \in files_to_process
    /\ in_trigger' = [path |-> e.path, mtime |-> e.mtime, pushed |-> FALSE]
    /\ ppc' = "lpush"
    /\ UNCHANGED <<variant, env_vars, watcher_vars, pre_start, router_vars,
                   lock, hpc, request, response, last_event, current_time,
                   lifecycle_vars, envelope_vars, reload_vars,
                   worker_vars, editor_vars>>

\* Processor thread: trigger_etl_task_minimal_test has returned, with or
\* without a message pushed; self.processed_files.add(filepath), without
\* the lock.
ProcessedAdd ==
    /\ variant = "service"
    /\ ppc = "lpush"
    /\ processed_files' = processed_files \cup {in_trigger.path}
    /\ files_to_process' =
          files_to_process \ {[path |-> in_trigger.path, mtime |-> in_trigger.mtime]}
    /\ in_trigger' = NoEntry
    /\ ppc' = "trigger"
    /\ UNCHANGED <<variant, env_vars, file_timestamps, initial_scan_done,
                   pattern_mappings, pc, todo, Locals, new_files,
                   processing_queue, dispatched, pre_start, router_vars,
                   lock, hpc, request, response, last_event, current_time,
                   lifecycle_vars, envelope_vars, reload_vars,
                   worker_vars, editor_vars>>

\* Processor thread: the for loop is over, process_pending_files returns.
PendingDone ==
    /\ variant = "service"
    /\ ppc = "trigger"
    /\ files_to_process = {}
    /\ ppc' = "sleep"
    /\ UNCHANGED <<variant, env_vars, watcher_vars, pre_start, router_vars,
                   lock, hpc, request, response, last_event, current_time,
                   in_trigger,
                   lifecycle_vars, envelope_vars, reload_vars,
                   worker_vars, editor_vars>>

\* HTTP thread, get_processing_status (called by /health and /list):
\* "with self.lock:".
StatusAcquire ==
    /\ variant = "service"
    /\ hpc = "none"
    /\ Acquire("http")
    /\ hpc' = "status"
    /\ UNCHANGED <<variant, env_vars, watcher_vars, pre_start, router_vars,
                   ppc, request, response, last_event, current_time,
                   in_trigger,
                   lifecycle_vars, envelope_vars, reload_vars,
                   worker_vars, editor_vars>>

\* HTTP thread, get_processing_status: the counts are read, the with-block
\* ends, the handler answers.
StatusRelease ==
    /\ variant = "service"
    /\ hpc = "status"
    /\ Release("http")
    /\ hpc' = "none"
    /\ response' = 200
    /\ UNCHANGED <<variant, env_vars, watcher_vars, pre_start, router_vars,
                   ppc, request, last_event, current_time, in_trigger,
                   lifecycle_vars, envelope_vars, reload_vars,
                   worker_vars, editor_vars>>

\* Mutant of ProcessedAfterCompletion: the handler marks the named file as
\* processed.
ProcessedAfterCompletionAdds(d) == processed_files \cup {d.filename}

\* processed_files after processing_complete(d): the handler names
\* file_processor only to call log_processing_event.
ProcessedAfterCompletion(d) == processed_files

\* log_processing_event(filename, f'completed_{status}', ...): the line
\* appended to processing_events.log.
CompletionEvent(d) == [filepath |-> d.filename, status |-> <<"completed", d.status>>]

\* HTTP thread, POST /processing_complete with JSON body d.  A missing
\* 'filename' makes os.path.basename(None) raise in log_processing_event;
\* the handler's except clause answers 500.
processing_complete(d) ==
    /\ variant = "service"
    /\ request' = d
    /\ processed_files' = ProcessedAfterCompletion(d)
    /\ IF d.filename = None
       THEN /\ response' = 500
            /\ UNCHANGED last_event
       ELSE /\ response' = 200
            /\ last_event' = CompletionEvent(d)
    /\ UNCHANGED <<variant, env_vars, file_timestamps, initial_scan_done,
                   pattern_mappings, pc, todo, Locals, new_files,
                   processing_queue, files_to_process, dispatched, pre_start,
                   router_vars, lock, ppc, hpc, current_time, in_trigger,
                   lifecycle_vars, envelope_vars, reload_vars,
                   worker_vars, editor_vars>>

\* ------------------------------------------------------------- next-state
FileEvents ==
    \/ \E f \in Files, m \in Mtimes, s \in Sizes : Create(f, m, s)
    \/ \E f \in Files, m \in Mtimes, s \in Sizes : Modify(f, m, s)
    \/ \E f \in Files : Delete(f)

FileEventsOf(f) ==
    \/ \E m \in Mtimes, s \in Sizes : Create(f, m, s)
    \/ \E m \in Mtimes, s \in Sizes : Modify(f, m, s)
    \/ Delete(f)

\* The writers next to the service process, whose steps are followed thread
\* by thread: f1 is created, rewritten and removed at will, f2 is created
\* and then left alone.
ServiceFiles ==
    \/ FileEventsOf("f1")
    \/ \E m \in Mtimes, s \in Sizes : Create("f2", m, s)

Environment ==
    \/ (variant # "service" /\ FileEvents)
    \/ (variant = "service" /\ ServiceFiles)
    \/ Advance

\* The pattern-aware watchers: constructor, then find_and_process_files.
PatternWatcher ==
    \/ InitialScan
    \/ TickStart
    \/ \E f \in Files : ExaminePattern(f)
    \/ SettlePattern
    \/ DeliverPattern
    \/ ScanEnd

\* The service watcher (poll thread and processor thread) and the working
\* watcher.
BasicWatcher ==
    \/ TickStart
    \/ \E f \in Files : ExamineBasic(f)
    \/ SettleCheck
    \/ ScheduleAcquire
    \/ ScheduleRelease
    \/ SettleWorking
    \/ ScanEnd
    \/ RunDeliver
    \/ RunEnd
    \/ PendingEnter
    \/ PendingAcquire
    \/ PendingRelease
    \/ \E e \in files_to_process : Fire(e)
    \/ ProcessedAdd
    \/ PendingDone

Watcher == PatternWatcher \/ BasicWatcher

PatternFault ==
    \/ InitialScanFault
    \/ \E f \in Files : StatFault(f)
    \/ SettleFault
    \/ DeliverFault

Fault ==
    \/ PatternFault
    \/ RunFault
    \/ \E e \in files_to_process : FireFault(e)

\* The history is bounded: nothing happens once it is full.
NextNoFault == HistoryOpen /\ (Environment \/ Watcher)
Next == HistoryOpen /\ (Environment \/ Watcher \/ Fault)

Spec == Init /\ [][Next]_vars
\* The same system when no stat, read or broker call ever fails.
SpecNoFault == Init /\ [][NextNoFault]_vars

\* The pattern-aware watchers alone, failing calls included.
InitPattern == Init /\ PatternAware(variant)
NextPattern == HistoryOpen /\ (FileEvents \/ PatternWatcher \/ PatternFault)
SpecPattern == InitPattern /\ [][NextPattern]_vars

\* The service process: poll thread, processor thread and HTTP handlers on
\* one watch root that only ever holds f1; no stat or broker call fails.
PollThread ==
    \/ TickStart
    \/ \E f \in Files : ExamineBasic(f)
    \/ SettleCheck
    \/ ScheduleAcquire
    \/ ScheduleRelease
    \/ ScanEnd

ProcessorThread ==
    \/ PendingEnter
    \/ PendingAcquire
    \/ PendingRelease
    \/ \E e \in files_to_process : Fire(e)
    \/ ProcessedAdd
    \/ PendingDone

HttpThread ==
    \/ StatusAcquire
    \/ StatusRelease
    \/ \E d \in Payloads : processing_complete(d)

InitService == Init /\ variant = "service"
NextService ==
    HistoryOpen /\ (FileEventsOf("f1") \/ Advance \/ PollThread
                       \/ ProcessorThread \/ HttpThread)
SpecService == InitService /\ [][NextService]_vars

\* The scheduler of the service process: poll thread and processor thread
\* on both files, r.lpush free to raise, no HTTP request.  The processor
\* loop keeps running (it leaves every step it is in, and a blocking
\* acquire of the lock succeeds if the lock keeps coming free), the clock
\* keeps advancing, and the poll thread leaves the with-block it entered.
\* The writers of this harness: either file is created with content, and
\* f1 is rewritten with content any number of times until the dispatch
\* history is full.
SchedulerFiles ==
    \/ \E f \in Files : Create(f, 1, 1)
    \/ \E m \in Mtimes : Modify("f1", m, 1)

NextScheduler ==
    \/ (HistoryOpen /\ SchedulerFiles)
    \/ Advance
    \/ PollThread
    \/ ProcessorThread
    \/ \E e \in files_to_process : FireFault(e)
SpecScheduler ==
    /\ InitService
    /\ [][NextScheduler]_vars
    /\ WF_vars(Advance)
    /\ WF_vars(ScheduleRelease)
    /\ WF_vars(PendingEnter)
    /\ SF_vars(PendingAcquire)
    /\ WF_vars(PendingRelease)
    /\ WF_vars(\E e \in files_to_process : Fire(e) \/ FireFault(e))
    /\ WF_vars(ProcessedAdd)
    /\ WF_vars(PendingDone)

\* ---------------------------------------------------------- router harness
\* get_table_name_from_path called on its own: any short path over an
\* alphabet with both letter cases and both separators, and any rule set
\* (a dict, so no pattern twice) drawn from a few patterns, the empty one
\* included.
RouterAlphabet == {"a", "A", "b", "/", "\\"}
RouterPaths == UNION {[1..k -> RouterAlphabet] : k \in 0..MaxLen}
RouterPatterns ==
    { <<>>, <<"a">>, <<"A">>, <<"A","/">>, <<"a","/">>, <<"\\","a">> }
TableNames == <<"t1", "t2", "t3", "t4">>
RuleSets ==
    UNION { { [i \in 1..k |-> [pattern |-> ps[i], table |-> TableNames[i]]] :
                ps \in {q \in [1..k -> RouterPatterns] :
                           \A i, j \in 1..k : i # j => q[i] # q[j]} } :
            k \in 0..MaxRules }

InitRouter ==
    /\ variant = "pattern"
    /\ fs = [f \in Files |-> Absent]
    /\ file_timestamps = EmptyDict
    /\ processed_files = {}
    /\ initial_scan_done = FALSE
    /\ pattern_mappings = PATTERN_TABLE_MAPPING
    /\ pc = "router"
    /\ todo = {}
    /\ filepath = NoFile
    /\ current_mtime = 0
    /\ table_name = None
    /\ branch = None
    /\ new_files = <<>>
    /\ processing_queue = EmptyDict
    /\ files_to_process = {}
    /\ dispatched = EmptyBag
    /\ pre_start = [f \in Files |-> 0]
    /\ hi_mtime = [f \in Files |-> 0]
    /\ regressed = FALSE
    /\ rPath \in RouterPaths
    /\ rRules \in RuleSets
    /\ rOut = Unset
    /\ ServiceInit
    /\ WorkerInit
    /\ EditorInit
    /\ LifecycleInit
    /\ EnvelopeInit
    /\ Loaded({DefaultConfig})

\* One call of get_table_name_from_path(rPath) against the rule set rRules.
Classify ==
    /\ pc = "router"
    /\ rOut = Unset
    /\ rOut' = get_table_name_from_path(rPath, rRules)
    /\ UNCHANGED <<variant, env_vars, watcher_vars, pre_start, rPath, rRules,
                   harness_vars>>

NextRouter == Classify
SpecRouter == InitRouter /\ [][NextRouter]_vars

\* ---------------------------------------------------------- schema harness
\* The configurable watcher's task_kwargs for one file: the table_name that
\* find_and_process_files got from get_table_name_from_path, and the schema
\* that process_file looks up on its own.  Rule i of a rule set has the
\* table TableNames[i] and, in the configuration, the schema SchemaNames[i].
SchemaNames == <<"s1", "s2", "s3", "s4">>

\* PatternConfig.get_pattern_config(pattern): the configuration entry of
\* that key, {} if there is none.
get_pattern_config(pattern, mappings) ==
    LET at == {i \in DOMAIN mappings : mappings[i].pattern = pattern}
    IN  IF at = {} THEN [schema |-> None]
        ELSE [schema |-> SchemaNames[CHOOSE i \in at : TRUE]]

\* process_file, "for pattern in self.pattern_mappings: if pattern.lower()
\* in filepath.lower(): pattern_config = get_pattern_config(pattern);
\* break": the path is lower-cased, its separators are left as they are.
RECURSIVE PatternConfigFrom(_, _, _)
PatternConfigFrom(path, mappings, i) ==
    IF i > Len(mappings) THEN [schema |-> None]
    ELSE IF Contains(Lower(path), Lower(mappings[i].pattern))
         THEN get_pattern_config(mappings[i].pattern, mappings)
         ELSE PatternConfigFrom(path, mappings, i + 1)

\* One file through find_and_process_files and process_file, as far as
\* task_kwargs: table_name is what get_table_name_from_path returned (an
\* unmatched path is skipped), rOut is task_kwargs['schema'], None when
\* the file is skipped or pattern_config has no schema.
process_file ==
    /\ pc = "router"
    /\ rOut = Unset
    /\ table_name' = get_table_name_from_path(rPath, rRules)
    /\ rOut' = IF table_name' = None THEN None
               ELSE PatternConfigFrom(rPath, rRules, 1).schema
    /\ UNCHANGED <<variant, env_vars, file_timestamps, processed_files,
                   initial_scan_done, pattern_mappings, pc, todo, filepath,
                   current_mtime, branch, new_files, processing_queue,
                   files_to_process, dispatched, pre_start, rPath, rRules,
                   harness_vars>>

SpecSchema == InitRouter /\ [][process_file]_vars

\* The pattern-aware watchers (no failing call) and the router harness
\* side by side.
InitRouted == InitPattern \/ InitRouter
NextRouted ==
    \/ HistoryOpen /\ (FileEvents \/ PatternWatcher)
    \/ NextRouter
SpecRouted == InitRouted /\ [][NextRouted]_vars

\* ------------------------------------------------------- lifecycle harness
\* start(), stop(), _poll_loop, the processor loop and the end of
\* run_standalone, with a tick and a dispatch each taken as one stretch of
\* time a thread is in.  The calls of start() and stop() come one after the
\* other from one thread, in any order.
\* The tracker and the poll loop set aside, for a harness that follows
\* something else: the constructor's state, with the poll loop at label.
Parked(label) ==
    /\ variant = "service"
    /\ fs = [f \in Files |-> Absent]
    /\ file_timestamps = EmptyDict
    /\ processed_files = {}
    /\ initial_scan_done = FALSE
    /\ pattern_mappings = PATTERN_TABLE_MAPPING
    /\ pc = label
    /\ todo = {}
    /\ filepath = NoFile
    /\ current_mtime = 0
    /\ table_name = None
    /\ branch = None
    /\ new_files = <<>>
    /\ processing_queue = EmptyDict
    /\ files_to_process = {}
    /\ dispatched = EmptyBag
    /\ pre_start = [f \in Files |-> 0]
    /\ hi_mtime = [f \in Files |-> 0]
    /\ regressed = FALSE
    /\ rPath = <<>>
    /\ rRules = <<>>
    /\ rOut = None
    /\ ServiceInit
    /\ WorkerInit
    /\ EditorInit
    /\ Loaded({DefaultConfig})

InitLifecycle ==
    /\ Parked("lifecycle")
    /\ LifecycleInit
    /\ EnvelopeInit

LifecycleFrame ==
    UNCHANGED <<variant, env_vars, watcher_vars, pre_start, router_vars,
                service_vars, envelope_vars, reload_vars, worker_vars,
                editor_vars>>

\* start(): self.running = True; self.thread = threading.Thread(target=
\* self._poll_loop, daemon=True); self.thread.start().
start ==
    /\ pc = "lifecycle"
    /\ main \in {"serving", "stopped"}
    /\ \E t \in ThreadIds :
          /\ threads[t] = "unborn"
          /\ \A u \in ThreadIds : u < t => threads[u] # "unborn"
          /\ threads' = [threads EXCEPT ![t] = "loop"]
          /\ thread' = t
    /\ running' = TRUE
    /\ main' = "serving"
    /\ UNCHANGED processor
    /\ LifecycleFrame

\* stop(), up to the join: self.running = False; if self.thread:
\* self.thread.join(timeout=5).
stop ==
    /\ pc = "lifecycle"
    /\ main \in {"serving", "stopped"}
    /\ running' = FALSE
    /\ main' = IF thread # 0 THEN "joining" ELSE "stopped"
    /\ UNCHANGED <<threads, thread, processor>>
    /\ LifecycleFrame

\* stop(): self.thread.join(timeout=5) returns, at once when the thread is
\* over, after five seconds wherever the thread is then.
JoinReturn ==
    /\ pc = "lifecycle"
    /\ main = "joining"
    /\ main' = "stopped"
    /\ UNCHANGED <<running, threads, thread, processor>>
    /\ LifecycleFrame

\* _poll_loop: "while self.running:" is tested by thread t.
LoopTest(t) ==
    /\ pc = "lifecycle"
    /\ main # "exited"
    /\ threads[t] = "loop"
    /\ threads' = [threads EXCEPT ![t] = IF running THEN "tick" ELSE "done"]
    /\ UNCHANGED <<running, thread, main, processor>>
    /\ LifecycleFrame

\* _poll_loop: _check_for_new_files returns (or raises, which the except
\* clause of the loop logs); time.sleep(POLL_INTERVAL) begins.
TickEnd(t) ==
    /\ pc = "lifecycle"
    /\ main # "exited"
    /\ threads[t] = "tick"
    /\ threads' = [threads EXCEPT ![t] = "sleep"]
    /\ UNCHANGED <<running, thread, main, processor>>
    /\ LifecycleFrame

\* _poll_loop: time.sleep(POLL_INTERVAL) is over.
SleepEnd(t) ==
    /\ pc = "lifecycle"
    /\ main # "exited"
    /\ threads[t] = "sleep"
    /\ threads' = [threads EXCEPT ![t] = "loop"]
    /\ UNCHANGED <<running, thread, main, processor>>
    /\ LifecycleFrame

\* run_standalone: the processor thread (daemon, "while True") is started
\* after file_watcher.start().
ProcessorStart ==
    /\ pc = "lifecycle"
    /\ main # "exited"
    /\ thread # 0
    /\ processor = "unborn"
    /\ processor' = "sleep"
    /\ UNCHANGED <<running, threads, thread, main>>
    /\ LifecycleFrame

\* processor_loop: process_pending_files finds due entries and is in its
\* for loop, inside trigger_etl_task_minimal_test.
DispatchBegin ==
    /\ pc = "lifecycle"
    /\ main # "exited"
    /\ processor = "sleep"
    /\ processor' = "dispatch"
    /\ UNCHANGED <<running, threads, thread, main>>
    /\ LifecycleFrame

\* processor_loop: process_pending_files returns; time.sleep(5).
DispatchEnd ==
    /\ pc = "lifecycle"
    /\ main # "exited"
    /\ processor = "dispatch"
    /\ processor' = "sleep"
    /\ UNCHANGED <<running, threads, thread, main>>
    /\ LifecycleFrame

\* run_standalone ends: the interpreter exits and every daemon thread stops
\* where it is.  After KeyboardInterrupt the except clause has called
\* file_watcher.stop() (main = "stopped"); when serve() returns, or raises
\* anything else, the function ends with no call of stop(), so running
\* stays as it is.  serve() is reached once both threads are started.
Exit ==
    /\ pc = "lifecycle"
    /\ \/ main = "stopped"
       \/ main = "serving" /\ thread # 0 /\ processor # "unborn"
    /\ main' = "exited"
    /\ UNCHANGED <<running, threads, thread, processor>>
    /\ LifecycleFrame

NextLifecycle ==
    \/ start
    \/ stop
    \/ JoinReturn
    \/ \E t \in ThreadIds : LoopTest(t)
    \/ \E t \in ThreadIds : TickEnd(t)
    \/ \E t \in ThreadIds : SleepEnd(t)
    \/ ProcessorStart
    \/ DispatchBegin
    \/ DispatchEnd
    \/ Exit
SpecLifecycle == InitLifecycle /\ [][NextLifecycle]_vars

\* ------------------------------------------------- configurable: start-up
\* main() of pattern_watcher_configurable on a configuration file of any
\* shape.  The constructor calls _setup_from_config first: where
\* get_pattern_mappings raises, the exception leaves the constructor, main
\* prints "Watcher failed to start" and calls sys.exit(1) (pc = "exit_1").
\* Nothing in this path calls validate_config.
SetupFault ==
    /\ variant = "configurable"
    /\ pc = "construct"
    /\ ~MappingsLoad(config_manager)
    /\ pc' = "exit_1"
    /\ UNCHANGED <<variant, env_vars, file_timestamps, processed_files,
                   initial_scan_done, pattern_mappings, todo, Locals,
                   new_files, processing_queue, files_to_process, dispatched,
                   pre_start, router_vars, harness_vars>>

\* Otherwise the constructor goes on to the initial scan and start_watching
\* runs the poll loop; time.sleep accepts an int and a float alike.
InitStartup == InitWith(ConfigShapes) /\ variant = "configurable"
NextStartup ==
    HistoryOpen /\ (FileEvents
                       \/ (MappingsLoad(config_manager) /\ PatternWatcher)
                       \/ SetupFault)
SpecStartup == InitStartup /\ [][NextStartup]_vars

\* ------------------------------------------------------------ broker hang
\* process_file when the broker call never returns: celery_app.send_task is
\* called on the thread of the poll loop with no timeout, so the thread
\* stays inside the call (pc = "hung").
DeliverHang ==
    /\ PatternAware(variant)
    /\ pc = "delay"
    /\ variant = "configurable" => validate_file(filepath)
    /\ Readable(filepath)
    /\ pc' = "hung"
    /\ UNCHANGED <<variant, env_vars, file_timestamps, processed_files,
                   initial_scan_done, pattern_mappings, todo, Locals,
                   new_files, processing_queue, files_to_process, dispatched,
                   pre_start, router_vars, harness_vars>>

\* The configurable watcher on its default configuration.
InitConfigurable == Init /\ variant = "configurable"

\* The configurable watcher with a broker that may hang, on a watch root
\* where only f1 is created, rewritten or removed after start-up.  The
\* thread of the poll loop is always scheduled again: its steps are weakly
\* fair.
NextHang == HistoryOpen /\ (FileEventsOf("f1") \/ PatternWatcher \/ DeliverHang)
SpecHang ==
    InitConfigurable /\ [][NextHang]_vars /\ WF_vars(HistoryOpen /\ PatternWatcher)

\* --------------------------------------------------- configurable: reload
ReloadFrame ==
    UNCHANGED <<variant, env_vars, file_timestamps, processed_files,
                initial_scan_done, pc, todo, Locals, new_files,
                processing_queue, files_to_process, dispatched, pre_start,
                router_vars, service_vars, lifecycle_vars, envelope_vars,
                worker_vars, editor_vars>>

\* reload_config, first statement: self.config_manager =
\* PatternConfig(config_file), the file as it is on disk now.
reload_config ==
    /\ variant = "configurable"
    /\ initial_scan_done
    /\ rpc = "none"
    /\ \E v \in ConfigVersions :
          config_manager' = [config_manager EXCEPT !.version = v]
    /\ rpc' = "watcher_settings"
    /\ UNCHANGED <<settings, pattern_mappings>>
    /\ ReloadFrame

\* _setup_from_config called by reload_config: the assignments of
\* watch_path .. supported_extensions,
SetupWatcherSettings ==
    /\ rpc = "watcher_settings"
    /\ settings' = [settings EXCEPT !.watcher = config_manager.version]
    /\ rpc' = "data_quality"
    /\ UNCHANGED <<config_manager, pattern_mappings>>
    /\ ReloadFrame

\* of max_file_size_mb .. encoding_fallbacks,
SetupDataQuality ==
    /\ rpc = "data_quality"
    /\ settings' = [settings EXCEPT !.data_quality = config_manager.version]
    /\ rpc' = "pattern_mappings"
    /\ UNCHANGED <<config_manager, pattern_mappings>>
    /\ ReloadFrame

\* and of pattern_mappings (the Celery settings after it are read by the
\* constructor only).
SetupPatternMappings ==
    /\ rpc = "pattern_mappings"
    /\ pattern_mappings' = MappingsOf(config_manager.version)
    /\ rpc' = "none"
    /\ UNCHANGED <<config_manager, settings>>
    /\ ReloadFrame

Reload ==
    \/ reload_config
    \/ SetupWatcherSettings
    \/ SetupDataQuality
    \/ SetupPatternMappings

\* The configurable watcher with a thread that calls reload_config while
\* the poll loop runs; no stat, read or broker call fails.  Of the files
\* under the watch root only f2, the one the reloaded rule matches, is
\* created, rewritten or removed after start-up.
NextReload == HistoryOpen /\ (FileEventsOf("f2") \/ PatternWatcher \/ Reload)
SpecReload == InitConfigurable /\ [][NextReload]_vars

\* ---------------------------------------------------------- worker harness
\* The calls of process_excel_file(filename, sheet_name=0,
\* auto_triggered=False, filepath=None) that the senders make: the file name
\* is the only positional argument; the keywords are auto_triggered=True
\* with filepath (trigger_etl_task, the raw envelope, send_task),
\* auto_triggered=True alone (the emergency message, scan_for_new_files of
\* enhanced_tasks) or none (delay(file_info['name'])).
Invocations ==
    {[args |-> <<f>>, kwargs |-> kw] :
        f \in Files,
        kw \in {EmptyDict, [k \in {"auto_triggered"} |-> "True"]}}
    \cup {[args |-> <<f>>,
           kwargs |-> [k \in {"auto_triggered", "filepath"} |->
                          IF k = "auto_triggered" THEN "True" ELSE g]] :
             f \in Files, g \in Files}

\* The value the parameter auto_triggered is bound to inside the task.
auto_triggered(args, kwargs) ==
    IF "auto_triggered" \in DOMAIN kwargs THEN kwargs["auto_triggered"]
    ELSE IF Len(args) >= 3 THEN args[3]
    ELSE "False"

\* Mutant of KwargsGet: the lookup never finds the key.
KwargsGetAbsent(kwargs, key) == None

\* kwargs.get(key)
KwargsGet(kwargs, key) == IF key \in DOMAIN kwargs THEN kwargs[key] ELSE None

InitWorker ==
    /\ Parked("worker")
    /\ LifecycleInit
    /\ EnvelopeInit

WorkerFrame ==
    UNCHANGED <<variant, env_vars, watcher_vars, pre_start, router_vars,
                service_vars, lifecycle_vars, envelope_vars, reload_vars,
                editor_vars>>

\* The worker takes a message off the queue and calls the task.
Receive(inv) ==
    /\ worker.pos \in {"idle", "done"}
    /\ worker.handled < MaxMsgs
    /\ worker' = [pos |-> "running", args |-> inv.args, kwargs |-> inv.kwargs,
                  outcome |-> None, posts |-> <<>>,
                  handled |-> worker.handled + 1]
    /\ WorkerFrame

\* process_excel_file returns its result dict.
TaskReturns ==
    /\ worker.pos = "running"
    /\ worker' = [worker EXCEPT !.pos = "returned", !.outcome = "SUCCESS"]
    /\ WorkerFrame

\* process_excel_file raises (file not found, no data, read error): the
\* except clause logs and re-raises.
TaskRaises ==
    /\ worker.pos = "running"
    /\ worker' = [worker EXCEPT !.pos = "raised", !.outcome = "FAILURE"]
    /\ WorkerFrame

\* notify_processing_complete(filename, status, details): one
\* requests.post; whatever it raises is caught and logged.
notify_processing_complete(filename, status, delivered) ==
    Append(worker.posts,
           [filename |-> filename, status |-> status, delivered |-> delivered])

\* CallbackTask.on_success: "if kwargs.get('auto_triggered'):
\* self.notify_processing_complete(args[0], 'success', retval)".
on_success ==
    /\ worker.pos = "returned"
    /\ \E delivered \in BOOLEAN :
          worker' = [worker EXCEPT
              !.pos = "done",
              !.posts = IF KwargsGet(worker.kwargs, "auto_triggered") = "True"
                        THEN notify_processing_complete(worker.args[1], "success", delivered)
                        ELSE @]
    /\ WorkerFrame

\* CallbackTask.on_failure: the same with 'failure'.
on_failure ==
    /\ worker.pos = "raised"
    /\ \E delivered \in BOOLEAN :
          worker' = [worker EXCEPT
              !.pos = "done",
              !.posts = IF KwargsGet(worker.kwargs, "auto_triggered") = "True"
                        THEN notify_processing_complete(worker.args[1], "failure", delivered)
                        ELSE @]
    /\ WorkerFrame

NextWorker ==
    \/ \E inv \in Invocations : Receive(inv)
    \/ TaskReturns
    \/ TaskRaises
    \/ on_success
    \/ on_failure
SpecWorker == InitWorker /\ [][NextWorker]_vars

\* ---------------------------------------------------------- editor harness
\* manage_config: one PatternConfig, then add_pattern and remove_pattern in
\* any order.  config['pattern_mappings'] is a dict, kept as the sequence of
\* its items in insertion order; of each value only 'table' is followed.
\* Mutant of add_pattern: an existing pattern is taken out and put back at
\* the end.
add_pattern_last(mappings, pattern, table) ==
    SelectSeq(mappings, LAMBDA r : r.pattern # pattern)
        \o <<[pattern |-> pattern, table |-> table]>>

\* add_pattern, "self.config['pattern_mappings'][pattern] = {...}": a dict
\* assignment, which replaces the value of a key that is there and appends
\* a key that is not.
add_pattern(mappings, pattern, table) ==
    IF \E i \in DOMAIN mappings : mappings[i].pattern = pattern
    THEN [i \in DOMAIN mappings |->
             IF mappings[i].pattern = pattern
             THEN [pattern |-> pattern, table |-> table]
             ELSE mappings[i]]
    ELSE Append(mappings, [pattern |-> pattern, table |-> table])

\* remove_pattern, "del self.config['pattern_mappings'][pattern]".
remove_pattern(mappings, pattern) ==
    SelectSeq(mappings, LAMBDA r : r.pattern # pattern)

\* save_config: the whole configuration is written over the file.
save_config(mappings) ==
    [mappings |-> mappings, writes |-> config_on_disk.writes + 1]

\* The patterns and tables typed at the prompt.
EditPatterns == {<<"a">>, <<"A">>, <<"a", "/">>}
EditTables == {"t1", "t4"}

EditorFrame ==
    UNCHANGED <<variant, env_vars, file_timestamps, processed_files,
                initial_scan_done, pattern_mappings, todo, Locals, new_files,
                processing_queue, files_to_process, dispatched, pre_start,
                router_vars, service_vars, lifecycle_vars, envelope_vars,
                reload_vars, worker_vars>>

\* config = PatternConfig(): _load_config reads the file, which holds any
\* rule set.
LoadConfig ==
    /\ pc = "editor"
    /\ pc' = "menu"
    /\ \E rules \in RuleSets :
          /\ config_on_disk' = [mappings |-> rules, writes |-> 0]
          /\ self_config' = rules
    /\ UNCHANGED edits
    /\ EditorFrame

\* One line of the history: the call and what it found.
Edit(op, pattern, table) ==
    [op |-> op, pattern |-> pattern, table |-> table,
     config |-> self_config, file |-> config_on_disk]

\* Menu choice 2: config.add_pattern(pattern, table, ...), which saves.
AddPattern(pattern, table) ==
    /\ pc = "menu"
    /\ Len(edits) < MaxEdits
    /\ self_config' = add_pattern(self_config, pattern, table)
    /\ config_on_disk' = save_config(self_config')
    /\ edits' = Append(edits, Edit("add", pattern, table))
    /\ UNCHANGED pc
    /\ EditorFrame

\* Menu choice 3: config.remove_pattern(pattern), which saves only when the
\* pattern was there.
RemovePattern(pattern) ==
    /\ pc = "menu"
    /\ Len(edits) < MaxEdits
    /\ IF \E i \in DOMAIN self_config : self_config[i].pattern = pattern
       THEN /\ self_config' = remove_pattern(self_config, pattern)
            /\ config_on_disk' = save_config(self_config')
       ELSE UNCHANGED <<self_config, config_on_disk>>
    /\ edits' = Append(edits, Edit("remove", pattern, None))
    /\ UNCHANGED pc
    /\ EditorFrame

InitEditor ==
    /\ Parked("editor")
    /\ LifecycleInit
    /\ EnvelopeInit
NextEditor ==
    \/ LoadConfig
    \/ \E pattern \in EditPatterns, table \in EditTables : AddPattern(pattern, table)
    \/ \E pattern \in EditPatterns : RemovePattern(pattern)
SpecEditor == InitEditor /\ [][NextEditor]_vars

\* ------------------------------------------------ configurable: file size
\* The configurable watcher on a watch root where f1 is created and
\* rewritten with any size up to one unit over the limit.
SizedFiles ==
    \/ \E m \in Mtimes, s \in 0..(max_file_size_mb + 1) : Create("f1", m, s)
    \/ \E m \in Mtimes, s \in 0..(max_file_size_mb + 1) : Modify("f1", m, s)

NextSize == HistoryOpen /\ (SizedFiles \/ PatternWatcher)
SpecSize == InitConfigurable /\ [][NextSize]_vars

\* ------------------------------------------------- service: the switch
\* The service process under either value of the switch: module start-up
\* leaves ETL_TRIGGER_ENABLED true (the environment asks for it and the
\* Redis ping answered) or false (the environment says so, or the ping
\* raised); then the poll thread and the processor thread run on f1, and
\* r.lpush is free to raise.
InitSwitch ==
    /\ Parked("idle")
    /\ LifecycleInit
    /\ ETL_TRIGGER_ENABLED \in BOOLEAN
    /\ trigger_filepath = <<>>
    /\ now = <<"0">>
    /\ celery = <<>>
NextSwitch ==
    HistoryOpen /\ (FileEventsOf("f1") \/ Advance \/ PollThread
                       \/ ProcessorThread
                       \/ \E e \in files_to_process : FireFault(e))
SpecSwitch == InitSwitch /\ [][NextSwitch]_vars

\* The names under which the worker's modules register tasks with
\* @app.task(name=...): simple_tasks (the one module the worker's app
\* includes), tasks, enhanced_tasks, tasks_postgres and dataframe_tasks.
RegisteredTasks ==
    {"hello_world", "add_numbers",
     "process_excel_file", "scan_for_new_files", "test_connection",
     "etl_processor.tasks.process_excel_file",
     "etl_processor.tasks.batch_process_files",
     "etl_processor.tasks.health_check",
     "test_postgres_connection", "setup_database",
     "process_excel_to_postgres", "scan_and_process_files",
     "get_processing_stats",
     "process_dataframe", "test_dataframe_connectivity"}

\* -------------------------------------------------------- envelope harness
\* Calls of the dispatch methods of FileProcessor on a fresh process, the
\* first with any input of the bounded sets, later ones with a path of
\* AttemptPaths.  The tracker and the poll loop are set aside
\* (pc = "envelope" before a call; after it pc names the method that
\* returned); Redis is reachable and its list 'celery' starts empty.
InitEnvelope ==
    /\ Parked("envelope")
    /\ LifecycleInit
    /\ ETL_TRIGGER_ENABLED \in BOOLEAN
    /\ trigger_filepath \in EnvelopePaths
    /\ now \in Times
    /\ celery = <<>>

EnvelopeFrame ==
    UNCHANGED <<variant, env_vars, file_timestamps, processed_files,
                initial_scan_done, pattern_mappings, todo, filepath,
                current_mtime, table_name, branch, new_files,
                processing_queue, files_to_process, dispatched, pre_start,
                router_vars, lock, ppc, hpc, request, response,
                current_time, in_trigger,
                lifecycle_vars, reload_vars, worker_vars, editor_vars,
                ETL_TRIGGER_ENABLED>>

\* trigger_etl_task_fixed, the whole call.  With the switch off it returns
\* at once.  Otherwise it builds celery_message and evaluates
\* r.lpush('celery', json.dumps(celery_message)): the argument first, so
\* where json.dumps raises nothing is pushed and the except clause writes
\* an 'error' event; else the document goes to the head of the list and a
\* 'triggered' event is written.
trigger_etl_task_fixed ==
    /\ pc = "envelope"
    /\ pc' = "returned"
    /\ LET filename == Basename(trigger_filepath)
           d == Dumps(celery_message(filename, trigger_filepath, now))
       IN  IF ~ETL_TRIGGER_ENABLED
           THEN UNCHANGED <<celery, last_event>>
           ELSE IF d.ok
           THEN /\ celery' = <<d.text>> \o celery
                /\ last_event' = [filepath |-> trigger_filepath,
                                  status |-> <<"triggered", TaskId(filename, now)>>]
           ELSE /\ celery' = celery
                /\ last_event' = [filepath |-> trigger_filepath,
                                  status |-> <<"error", "TypeError">>]
    /\ UNCHANGED <<trigger_filepath, now>>
    /\ EnvelopeFrame

\* What Celery puts on the list for one task sent with delay or send_task.
\* The envelope is the library's; the model keeps of it the task name, the
\* id (a uuid, different for every message: the n-th is "uuid" and the
\* digit n) and the body [args, kwargs, {}].
task_message(task, filename, fp, n) ==
    J("dict", <<
      [k |-> Word("body"),
       v |-> J("list", <<TaskArgs(filename), TaskKwargs(fp), J("dict", <<>>)>>)],
      [k |-> Word("headers"), v |-> J("dict", <<
          [k |-> Word("task"), v |-> J("str", task)],
          [k |-> Word("id"), v |-> J("str", <<"uuid", Digits[n + 1]>>)] >>)] >>)

\* trigger_etl_task, the whole call.  With the switch off it returns at
\* once.  Otherwise it imports process_excel_file, registered by
\* enhanced_tasks under the name 'etl_processor.tasks.process_excel_file',
\* and calls delay(filename, auto_triggered=True, filepath=filepath) on it:
\* the message goes to the broker and a 'triggered' event is written, or the
\* import or the broker call raises and the except clause writes an 'error'
\* event.
trigger_etl_task ==
    /\ pc = "envelope"
    /\ pc' = "returned_task"
    /\ LET filename == Basename(trigger_filepath)
           message == task_message(Word("etl_processor.tasks.process_excel_file"),
                                   filename, trigger_filepath, Len(celery))
       IN  IF ~ETL_TRIGGER_ENABLED
           THEN UNCHANGED <<celery, last_event>>
           ELSE \/ /\ celery' = <<Dumps(message).text>> \o celery
                   /\ last_event' = [filepath |-> trigger_filepath,
                                     status |-> <<"triggered",
                                                  <<"uuid", Digits[Len(celery) + 1]>> >>]
                \/ /\ celery' = celery
                   /\ last_event' = [filepath |-> trigger_filepath,
                                     status |-> <<"error", "Exception">>]
    /\ UNCHANGED <<trigger_filepath, now>>
    /\ EnvelopeFrame

\* trigger_etl_task_working_method, the whole call: whatever the switch, it
\* builds a Celery app of its own and calls send_task(
\* 'etl_processor.enhanced_tasks.process_excel_file', args=[filename],
\* kwargs={'auto_triggered': True, 'filepath': str(filepath)}).  The app is
\* given broker_url 'http://localhost:6379/0': the library either delivers
\* the message or raises, and the except clause only logs.
trigger_etl_task_working_method ==
    /\ pc = "envelope"
    /\ pc' = "returned_working"
    /\ LET message == task_message(TaskName, Basename(trigger_filepath),
                                   trigger_filepath, Len(celery))
       IN  \/ celery' = <<Dumps(message).text>> \o celery
           \/ celery' = celery
    /\ UNCHANGED <<trigger_filepath, now, last_event>>
    /\ EnvelopeFrame

\* trigger_etl_task_minimal_test, the method process_pending_files calls
\* for every due entry: it pushes the fixed text '{"test": "message"}',
\* whatever the file and whatever the switch.
trigger_etl_task_minimal_test ==
    /\ pc = "envelope"
    /\ pc' = "returned_minimal"
    /\ celery' = << <<"{", "\"", "test", "\"", ":", " ", "\"", "message", "\"", "}">> >>
                 \o celery
    /\ UNCHANGED <<trigger_filepath, now, last_event>>
    /\ EnvelopeFrame

\* simple_task of trigger_etl_task_emergency.
simple_task(filename, time) ==
    J("dict", <<
      [k |-> Word("task"), v |-> J("str", TaskName)],
      [k |-> Word("args"), v |-> TaskArgs(filename)],
      [k |-> Word("kwargs"),
       v |-> J("dict", << [k |-> Word("auto_triggered"), v |-> JTrue] >>)],
      [k |-> Word("id"), v |-> J("str", <<"emergency", "_">> \o time)] >>)

\* trigger_etl_task_emergency, the whole call: with the switch on it pushes
\* json.dumps(simple_task).
trigger_etl_task_emergency ==
    /\ pc = "envelope"
    /\ pc' = "returned_emergency"
    /\ celery' = IF ETL_TRIGGER_ENABLED
                 THEN <<Dumps(simple_task(Basename(trigger_filepath), now)).text>>
                      \o celery
                 ELSE celery
    /\ UNCHANGED <<trigger_filepath, now, last_event>>
    /\ EnvelopeFrame

\* Later calls: a path of two one-character components, so that two
\* directories can hold the same base name.
AttemptPaths ==
    {p \in EnvelopePaths : /\ Len(p) = MaxLen
                           /\ p[2] = "/"
                           /\ \A i \in DOMAIN p : i # 2 => p[i] \in {"a", ","}}

\* The caller goes on to its next dispatch (the loop of
\* process_pending_files at its next due entry, or a later call of it): a
\* new path, and a clock that has not gone back.  At most MaxMsgs messages
\* are put on the list.
NextAttempt ==
    /\ pc \in {"returned", "returned_minimal", "returned_emergency",
              "returned_task", "returned_working"}
    /\ Len(celery) < MaxMsgs
    /\ pc' = "envelope"
    /\ trigger_filepath' \in AttemptPaths
    /\ now' \in {t \in Times : Len(t) >= Len(now)}
    /\ UNCHANGED <<celery, last_event>>
    /\ EnvelopeFrame

NextEnvelope ==
    \/ trigger_etl_task
    \/ trigger_etl_task_fixed
    \/ trigger_etl_task_working_method
    \/ trigger_etl_task_minimal_test
    \/ trigger_etl_task_emergency
    \/ NextAttempt

SpecEnvelope == InitEnvelope /\ [][NextEnvelope]_vars

\* ==================================================================== C1
\* C1 as stated: in every variant the number of dispatches issued for one
\* (path, mtime) pair is at most one; counted here are only the dispatches
\* whose file still had the observed mtime when the message was sent.  Only
\* the last mtime of a path is remembered, so a file whose mtime goes A, B, A
\* is dispatched for A twice.
C1_AtMostOncePerPathMtime ==
    \A f \in Files, m \in Mtimes :
       LET S == {x \in BagToSet(dispatched) :
                    x.path = f /\ x.mtime = m /\ x.at = m}
       IN  BagCardinality([x \in S |-> dispatched[x]]) <= 1

\* C1 amended: as long as no file is ever given an mtime that is not later
\* than every mtime it had before, each (path, mtime) pair is dispatched at
\* most once in every variant; and a tick that examines a known path whose
\* mtime equals the recorded one goes on to the next file without
\* scheduling or dispatching anything and without touching the tracker.
C1_AtMostOnceForFreshMtimes ==
    /\ [](~regressed => \A f \in Files, m \in Mtimes : Count(f, m) <= 1)
    /\ [][\A f \in Files :
            (/\ pc = "scan" /\ f \in todo /\ f \notin todo'
             /\ fs[f].exists
             /\ f \in DOMAIN file_timestamps
             /\ file_timestamps[f] = fs[f].mtime)
            => (/\ pc' \notin {"settle", "delay"}
                /\ dispatched' = dispatched
                /\ processing_queue' = processing_queue
                /\ new_files' = new_files
                /\ file_timestamps' = file_timestamps)]_vars

\* C1 witness: a file was dispatched once for the mtime it still has, and
\* a later tick has it in its enumeration with that mtime on record.
C1_Witness ==
    /\ ~regressed
    /\ pc = "scan"
    /\ \E f \in todo :
          /\ fs[f].exists
          /\ f \in DOMAIN file_timestamps
          /\ file_timestamps[f] = fs[f].mtime
          /\ Count(f, fs[f].mtime) = 1

\* ==================================================================== C2
\* C2 as stated: in every variant, when the re-stat after the settle sleep
\* would show an mtime different from the one of the tick's first stat, the
\* file (non-empty, so that only the mtime is at stake) is neither
\* scheduled (schedule_file_processing is not called), nor put on the list
\* to process, nor handed to process_file for that observation.  The modified-file branch of the service and working
\* watchers sleeps and then schedules without a re-stat.
C2_UnstableObservationNotScheduled ==
    [][(/\ pc = "settle" /\ pc' # "settle"
        /\ fs[filepath].exists
        /\ fs[filepath].size > 0
        /\ fs[filepath].mtime # current_mtime)
       => (/\ pc' \notin {"delay", "schedule"}
           /\ new_files' = new_files)]_vars

\* ==================================================================== C3
\* C3 as stated, on finite runs: once the poll loop is idle and the delayed
\* queue is drained, a non-empty file that appeared after start-up, matches
\* a rule (where rules exist), and whose current mtime is the one on record
\* (so a whole tick has dealt with its final mtime) has been dispatched:
\* some message was sent for the observation of that mtime or while the file
\* had that mtime, and no more than one for the observation of that mtime.
\* Mtimes only move forward here, and no stat, read or broker call fails.
C3_StableFileDispatchedOnce ==
    \A f \in Files :
       (/\ ~regressed
        /\ pc = "idle"
        /\ DOMAIN processing_queue = {}
        /\ files_to_process = {}
        /\ pre_start[f] = 0
        /\ fs[f].exists /\ fs[f].size > 0
        /\ f \in DOMAIN file_timestamps
        /\ file_timestamps[f] = fs[f].mtime
        /\ PatternAware(variant) =>
              get_table_name_from_path(PathOf(f), pattern_mappings) # None)
       => /\ Count(f, fs[f].mtime) <= 1
          /\ \E x \in BagToSet(dispatched) :
                /\ x.path = f
                /\ x.mtime = fs[f].mtime \/ x.at = fs[f].mtime

\* ==================================================================== C4
\* C4 as stated: in every variant, when a tick examines a file that is in
\* processed_files and whose mtime differs from the recorded one and from
\* the mtime it had at each of its dispatches, the file (non-empty) becomes a fresh
\* candidate: the tick goes into the settle wait for it with
\* the new mtime.  The service and working watchers record the new mtime
\* and then drop the file because it is in processed_files.
C4_ModifiedProcessedFileIsRearmed ==
    [][\A f \in Files :
          (/\ pc = "scan" /\ f \in todo /\ f \notin todo'
           /\ fs[f].exists /\ fs[f].size > 0
           /\ f \in processed_files
           /\ f \in DOMAIN file_timestamps
           /\ file_timestamps[f] # fs[f].mtime
           /\ \A x \in BagToSet(dispatched) :
                 x.path = f => x.at # fs[f].mtime)
          => (/\ pc' = "settle"
              /\ filepath' = f
              /\ current_mtime' = fs[f].mtime)]_vars

\* ==================================================================== C5
\* C5 as stated: a file whose size is 0 when the settle wait for it ends is
\* neither scheduled (schedule_file_processing is not called for it) nor
\* handed to process_file.  The modified-file branch of the service watcher
\* schedules without looking at the size.
C5_EmptyFileNotScheduled ==
    [][(/\ pc = "settle" /\ pc' # "settle"
        /\ fs[filepath].exists
        /\ fs[filepath].size = 0)
       => pc' \notin {"delay", "schedule"}]_vars

\* ==================================================================== C6
\* C6 as stated: a dispatch is never issued for a file in the tick that saw
\* its path for the first time.  (The service watcher dispatches from its
\* own thread and is left out.)  The pattern-aware and working watchers
\* record the mtime, sleep, re-stat and go on to process_file in one and the
\* same tick.
C6_NoDispatchInFirstSightTick ==
    [][dispatched' # dispatched =>
          /\ PatternAware(variant) => branch # "new"
          /\ variant = "working" => Head(new_files).branch # "new"]_vars

\* ==================================================================== C7
\* C7 as stated, for the pattern-aware watchers: before the initial scan
\* is done no tick has run, and, while mtimes only move forward, no
\* dispatch is issued for a file that was there at construction at the
\* mtime it had then.  An os.stat that raises in the initial scan ends the
\* scan with a partial baseline, and the next tick takes the files left out
\* for new ones.
C7_InitialScanBaseline ==
    PatternAware(variant) /\ pc # "router" =>
       /\ ~initial_scan_done => (pc = "construct" /\ dispatched = EmptyBag)
       /\ ~regressed =>
             \A f \in Files : pre_start[f] # 0 => Count(f, pre_start[f]) = 0

\* ==================================================================== C8
\* C8: get_table_name_from_path returns the table of the lowest-numbered
\* rule whose pattern occurs, case-insensitively, in the normalized path
\* (None when there is none), whatever the path and the rule set; and in
\* the pattern-aware watchers the table_name worked out for a file, and
\* carried by every dispatch issued for it, is the table of that rule.
C8_FirstDeclaredRuleWins ==
    LET first(path, rules) ==
            LET normalized == Normalize(path)
                hits == {i \in DOMAIN rules :
                            Contains(normalized, Lower(rules[i].pattern))}
            IN  IF hits = {} THEN None
                ELSE rules[CHOOSE i \in hits : \A j \in hits : i <= j].table
    IN  /\ rOut # Unset => rOut = first(rPath, rRules)
        /\ (PatternAware(variant) /\ pc \in {"settle", "delay"}) =>
              table_name = first(PathOf(filepath), pattern_mappings)
        /\ PatternAware(variant) =>
              \A x \in BagToSet(dispatched) :
                 x.table = first(PathOf(x.path), pattern_mappings)

\* C8 witness: a dispatch for f1, whose path matches both 'sales_data'
\* (rule 4) and 'reports' (rule 7), carries the table of rule 4.
C8_Witness ==
    /\ PatternAware(variant)
    /\ Contains(Normalize(PathOf("f1")), Lower(pattern_mappings[4].pattern))
    /\ Contains(Normalize(PathOf("f1")), Lower(pattern_mappings[7].pattern))
    /\ \E x \in BagToSet(dispatched) :
          x.path = "f1" /\ x.table = pattern_mappings[4].table

\* ==================================================================== C9
\* C9: the result of get_table_name_from_path depends on the path and the
\* rule set only, and is the same for every re-spelling of the path that
\* swaps '\' and '/' or changes the case of letters at any of its
\* positions, together with every re-spelling of the rule patterns that
\* changes the case of letters (and leaves the rule set a dict: no two
\* patterns equal).
C9_SpellingDoesNotMatter ==
    /\ [](LET otherCase(c) ==
                 IF \E k \in DOMAIN UpperCase : UpperCase[k] = c
                 THEN LowerCase[CHOOSE k \in DOMAIN UpperCase : UpperCase[k] = c]
                 ELSE IF \E k \in DOMAIN LowerCase : LowerCase[k] = c
                 THEN UpperCase[CHOOSE k \in DOMAIN LowerCase : LowerCase[k] = c]
                 ELSE c
              otherSpelling(c) ==
                 IF c = "/" THEN "\\" ELSE IF c = "\\" THEN "/" ELSE otherCase(c)
              paths == {[i \in DOMAIN rPath |->
                           IF i \in flipped THEN otherSpelling(rPath[i])
                           ELSE rPath[i]] : flipped \in SUBSET DOMAIN rPath}
              rules == {R \in RuleSets :
                           /\ Len(R) = Len(rRules)
                           /\ \A i \in DOMAIN R :
                                 /\ R[i].table = rRules[i].table
                                 /\ Len(R[i].pattern) = Len(rRules[i].pattern)
                                 /\ \A k \in DOMAIN R[i].pattern :
                                       R[i].pattern[k] \in
                                          {rRules[i].pattern[k],
                                           otherCase(rRules[i].pattern[k])}}
          IN  rOut # Unset =>
                 \A q \in paths, R \in rules :
                    get_table_name_from_path(q, R) = rOut)
    /\ [][rOut' # rOut =>
             UNCHANGED <<variant, env_vars, watcher_vars, pre_start,
                         rPath, rRules>>]_vars

\* C9 witness: the path 'A\' was classified against a rule set whose first
\* pattern is 'A/', which differs from it in the separator and, once
\* lower-cased, in nothing else; the result is the table of that rule.
C9_Witness ==
    /\ rPath = <<"A", "\\">>
    /\ Len(rRules) >= 1
    /\ rRules[1].pattern = <<"A", "/">>
    /\ rOut = rRules[1].table

\* =================================================================== C10
\* C10: in the pattern-aware watchers (no failing call) the file a tick is
\* waiting on or handing to process_file always matches a rule, and so
\* does the file of every dispatch; and the step that examines a file
\* matching no rule stays in the scan with every other file of the tick
\* still to be examined.
C10_UnmatchedFileIsSkipped ==
    /\ [](LET unmatched(f) ==
                 LET normalized == Normalize(PathOf(f))
                 IN  \A i \in DOMAIN pattern_mappings :
                        ~Contains(normalized, Lower(pattern_mappings[i].pattern))
          IN  PatternAware(variant) =>
                 /\ pc \in {"settle", "delay"} => ~unmatched(filepath)
                 /\ \A x \in BagToSet(dispatched) : ~unmatched(x.path))
    /\ [][\A f \in Files :
             (/\ PatternAware(variant)
              /\ pc = "scan" /\ f \in todo /\ f \notin todo'
              /\ LET normalized == Normalize(PathOf(f))
                 IN  \A i \in DOMAIN pattern_mappings :
                        ~Contains(normalized, Lower(pattern_mappings[i].pattern)))
             => (/\ pc' = "scan"
                 /\ todo' = todo \ {f}
                 /\ dispatched' = dispatched)]_vars

\* C10 witness: a tick has met f2, which matches no rule and appeared
\* after start-up, recorded it, and f1 was dispatched all the same while
\* f2 never was.
C10_Witness ==
    /\ PatternAware(variant)
    /\ pre_start["f2"] = 0
    /\ fs["f2"].exists
    /\ "f2" \in DOMAIN file_timestamps
    /\ "f2" \notin processed_files
    /\ CountOf("f2") = 0
    /\ CountOf("f1") >= 1

\* =================================================================== C11
\* C11 as stated: in every variant, the step in which the dispatch of a
\* stable file fails (in the service watcher: the step after the call of
\* trigger_etl_task_minimal_test that pushed nothing) (the file is there,
\* non-empty, with the mtime that was observed, it appeared after start-up,
\* and no message was sent) does not
\* add to processed_files, and leaves the file to be tried again: it is
\* still in the delayed queue, or the tracker does not hold its current
\* mtime as already seen.  Every variant records the mtime before the
\* attempt and skips the file from then on; the service watcher also adds
\* the path to processed_files, because trigger_etl_task_minimal_test
\* swallows the exception.
C11_FailedDispatchIsRetried ==
    [][\A f \in Files :
          (/\ pre_start[f] = 0
           /\ dispatched' = dispatched
           /\ fs[f].exists /\ fs[f].size > 0
           /\ \/ /\ PatternAware(variant)
                 /\ pc = "delay" /\ pc' # "delay"
                 /\ filepath = f /\ fs[f].mtime = current_mtime
              \/ /\ variant = "working"
                 /\ pc = "run" /\ new_files # <<>>
                 /\ new_files' = Tail(new_files)
                 /\ Head(new_files).path = f
                 /\ fs[f].mtime = Head(new_files).mtime
              \/ /\ variant = "service"
                 /\ ppc = "lpush" /\ ppc' # "lpush"
                 /\ ~in_trigger.pushed
                 /\ in_trigger.path = f /\ fs[f].mtime = in_trigger.mtime)
          => (/\ processed_files' = processed_files
              /\ \/ f \in DOMAIN processing_queue'
                 \/ f \notin DOMAIN file_timestamps'
                 \/ file_timestamps'[f] # fs'[f].mtime)]_vars

\* =================================================================== C12
\* C12 as stated: in every variant, when a stat of a file fails during a
\* tick, the file stays a candidate, that is, the tracker does not hold its
\* current mtime as already seen, so that the next tick examines it again.
\* First stat: the tick drops a file that was due to be examined (it
\* exists, its mtime is not the recorded one, it matches a rule where rules
\* exist, and it is new or not yet processed) without going into the settle
\* wait.  Re-stat: the settle wait of a file that is still there, non-empty
\* and with the observed mtime (a file that appeared after start-up) ends without the file being scheduled or
\* handed on.  The mtime is recorded before the settle sleep, so a failing
\* re-stat leaves the file looking unchanged to every later tick.
C12_FailedStatLeavesCandidate ==
    /\ [][\A f \in Files :
             (/\ pc = "scan" /\ f \in todo /\ f \notin todo'
              /\ pc' # "settle"
              /\ pre_start[f] = 0
              /\ fs[f].exists
              /\ ~IsKnownUnchanged(f, fs[f].mtime)
              /\ PatternAware(variant) =>
                    get_table_name_from_path(PathOf(f), pattern_mappings) # None
              /\ ~PatternAware(variant) =>
                    (f \notin DOMAIN file_timestamps \/ NotYetProcessed(f)))
             => (f \notin DOMAIN file_timestamps'
                 \/ file_timestamps'[f] # fs'[f].mtime)]_vars
    /\ [][(/\ pc = "settle" /\ pc' \notin {"settle", "delay", "schedule"}
           /\ new_files' = new_files
           /\ pre_start[filepath] = 0
           /\ fs[filepath].exists /\ fs[filepath].size > 0
           /\ fs[filepath].mtime = current_mtime)
          => (filepath \notin DOMAIN file_timestamps'
              \/ file_timestamps'[filepath] # fs'[filepath].mtime)]_vars

\* =================================================================== C13
\* C13 as stated: a step of a tick takes at most the file it examines out
\* of the tick's enumeration, so that every other enumerated file is still
\* examined in that tick, and the step after a settle wait, whose file is
\* already out of the enumeration, takes none; and the poll loop is back at
\* the start of a tick once the enumeration is used up.  In the working and
\* pattern-aware watchers the try/except is around the whole loop: an
\* os.stat that raises (here FileNotFoundError, for a file removed during
\* the settle sleep) ends the tick with files left unexamined.
C13_ErrorSkipsOnlyThatFile ==
    /\ [][pc = "scan" =>
             \/ todo' = todo
             \/ \E f \in todo : todo' = todo \ {f}]_vars
    /\ [][pc = "settle" => todo' = todo]_vars
    /\ [][(/\ pc \in {"scan", "settle"}
           /\ pc' \notin {"scan", "settle", "delay", "schedule"})
          => pc' \in {"idle", "run"}]_vars

\* =================================================================== C14
\* C14 as stated: when the HTTP thread serves a completion callback that
\* names a file dispatched before, with status success or failure, and the
\* log holds no completion for that file yet, the state the tracker keeps
\* for that file moves (to Completed or Failed): what file_timestamps,
\* processing_queue and processed_files hold about the file is not what it
\* was before the callback.  processing_complete writes a line to
\* processing_events.log and nothing else.
C14_CompletionMovesTrackedState ==
    [][\A f \in Files :
          LET TrackedOf(g) ==
                 << g \in DOMAIN file_timestamps,
                    IF g \in DOMAIN file_timestamps THEN file_timestamps[g] ELSE 0,
                    g \in DOMAIN processing_queue,
                    g \in processed_files >>
          IN  (/\ hpc' = hpc
               /\ \/ request' # request
                  \/ response' # response
                  \/ last_event' # last_event
               /\ request'.filename = f
               /\ request'.status \in {"success", "failure"}
               /\ CountOf(f) >= 1
               /\ last_event.filepath # f)
              => TrackedOf(f)' # TrackedOf(f)]_vars

\* =================================================================== C15
\* C15: a completion callback whose body lacks 'filename' or 'status', or
\* names a file no dispatch was issued for, is answered (200 or 500) in one
\* step of the HTTP thread that leaves file_timestamps, processing_queue
\* and processed_files as they were, takes no lock, and leaves the poll
\* thread and the processor thread where they are, at whatever point of a
\* tick it arrives.
C15_BadCompletionIsHarmless ==
    [][(/\ hpc' = hpc
        /\ \/ request' # request
           \/ response' # response
           \/ last_event' # last_event
        /\ \/ request'.filename = None
           \/ request'.status = None
           \/ CountOf(request'.filename) = 0)
       => (/\ file_timestamps' = file_timestamps
           /\ processing_queue' = processing_queue
           /\ processed_files' = processed_files
           /\ files_to_process' = files_to_process
           /\ dispatched' = dispatched
           /\ lock' = lock
           /\ pc' = pc /\ todo' = todo /\ ppc' = ppc
           /\ current_time' = current_time /\ in_trigger' = in_trigger
           /\ UNCHANGED Locals
           /\ response' \in {200, 500})]_vars

\* C15 witness: a callback without 'filename' has been answered with 500,
\* and the poll thread is inside schedule_file_processing for a file it
\* found stable.
C15_Witness ==
    /\ request.filename = None
    /\ response = 500
    /\ pc = "scheduling"
    /\ lock = "poll"

\* =================================================================== C16
\* C16 as stated: in the service watcher a step that writes
\* file_timestamps, processed_files or processing_queue (a new or
\* re-scheduled entry, or an entry taken out; the passing of time is no
\* write) is taken by a thread that holds FileProcessor.lock: the poll
\* thread for file_timestamps, the processor thread for processed_files,
\* one of the two for processing_queue.  _check_file writes
\* file_timestamps and process_pending_files adds to processed_files
\* outside any with-block.
C16_TrackerAccessUnderLock ==
    [][/\ file_timestamps' # file_timestamps => lock = "poll"
       /\ processed_files' # processed_files => lock = "processor"
       /\ (\/ DOMAIN processing_queue' # DOMAIN processing_queue
           \/ \E f \in DOMAIN processing_queue :
                 \/ processing_queue'[f].wait > processing_queue[f].wait
                 \/ processing_queue'[f].mtime # processing_queue[f].mtime)
          => \/ lock = "poll" /\ pc = "scheduling"
             \/ lock = "processor" /\ ppc = "locked"]_vars

\* =================================================================== C17
\* C17: FileProcessor.lock is held by the poll thread only inside
\* schedule_file_processing, by the processor thread only in the loop that
\* drains the due entries, by an HTTP thread only inside
\* get_processing_status: never in the settle sleep, between two ticks, or
\* in the broker call.  The next step of the thread that holds the lock
\* gives it back, and between acquisition and release nothing but
\* processing_queue and files_to_process is written by the holder: no file
\* is read and no message is sent.
C17_LockNotHeldAcrossBlocking ==
    /\ [](/\ lock = "poll" => pc = "scheduling"
          /\ lock = "processor" => ppc = "locked"
          /\ lock = "http" => hpc = "status"
          /\ pc \in {"idle", "settle"} => lock # "poll"
          /\ ppc \in {"sleep", "enter", "trigger", "lpush"} => lock # "processor")
    /\ [][/\ (lock = "poll" /\ pc' # pc) => lock' = "free"
          /\ (lock = "processor" /\ ppc' # ppc) => lock' = "free"
          /\ (lock = "http" /\ hpc' # hpc) => lock' = "free"
          /\ (lock # "free" /\ lock' # lock) =>
                /\ lock' = "free"
                /\ dispatched' = dispatched
                /\ processed_files' = processed_files
                /\ file_timestamps' = file_timestamps]_vars

\* C17 witness: the poll thread holds the lock inside
\* schedule_file_processing while the processor thread is between the
\* with-block and the broker call for a file it took off the queue.
C17_Witness ==
    /\ lock = "poll"
    /\ pc = "scheduling"
    /\ ppc = "trigger"
    /\ files_to_process # {}

\* =================================================================== C18
\* C18 as stated: whatever calls of start() and stop() are made, at most
\* one poll thread is inside a tick at any moment.  start() creates a new
\* thread each time it is called and does not look at the one it created
\* before; and a thread that outlives the five seconds of stop()'s join
\* carries on when running is TRUE again.
C18_NoOverlappingTicks ==
    Cardinality({t \in ThreadIds : threads[t] = "tick"}) <= 1

\* =================================================================== C19
\* C19 as stated: while running stays FALSE no poll thread goes into a
\* tick, a poll thread that finds running FALSE ends, and when the process
\* is over after stop() no poll thread was cut short inside a tick and the
\* processor thread was not cut short inside a dispatch.  The join in
\* stop() waits five seconds at most, nothing waits for the processor
\* thread, and both are daemon threads.
C19_CooperativeShutdown ==
    /\ [][(~running /\ ~running') =>
             \A t \in ThreadIds :
                /\ threads'[t] = "tick" => threads[t] = "tick"
                /\ (threads[t] = "loop" /\ threads'[t] # "loop")
                      => threads'[t] = "done"]_vars
    /\ [](main = "exited" =>
             /\ \A t \in ThreadIds : threads[t] # "tick"
             /\ processor # "dispatch")

\* C20: envelope round trip.  After a call of trigger_etl_task_fixed with
\* dispatch enabled, the head of the list 'celery' is a message, and decoding it
\* (JSON-decode the message, then JSON-decode its body as [args, kwargs,
\* extras]) gives back the task name in headers.task, args = [filename] and
\* kwargs = {auto_triggered: True, filepath: filepath}, for every filepath.
C20_EnvelopeRoundTrip ==
    (pc = "returned" /\ ETL_TRIGGER_ENABLED) =>
        /\ celery # <<>>
        /\ LET message == Loads(Head(celery))
               body == Loads(Get(message.val, Word("body")).v)
               filename == Basename(trigger_filepath)
           IN  /\ message.ok
               /\ Get(Get(message.val, Word("headers")), Word("task"))
                      = J("str", TaskName)
               /\ Get(message.val, Word("body")).t = "str"
               /\ body.ok
               /\ body.val = J("list", <<TaskArgs(filename),
                                         TaskKwargs(trigger_filepath),
                                         J("dict", <<>>)>>)

\* C21: one unit of work per dispatch.  Every dispatch with a reachable
\* broker, by the raw-envelope method (switch on) or by the method that
\* process_pending_files runs for a due entry, puts exactly one message on
\* 'celery', and that message carries the file: its body decodes to a list
\* whose first item is args = [filename].
C21_OneUnitOfWorkPerDispatch ==
    [][(trigger_etl_task_minimal_test
        \/ (ETL_TRIGGER_ENABLED /\ trigger_etl_task_fixed)) =>
           /\ Len(celery') = Len(celery) + 1
           /\ LET message == Loads(Head(celery'))
                  body == Loads(Get(message.val, Word("body")).v)
              IN  /\ message.ok
                  /\ body.ok
                  /\ body.val.t = "list"
                  /\ body.val.v # <<>>
                  /\ Head(body.val.v) = TaskArgs(Basename(trigger_filepath))]_vars

\* C22: producer/consumer agreement.  The task name a dispatch carries, in
\* headers.task of the message the raw-envelope method builds, in the
\* 'task' field of every message on 'celery' that has one and in
\* headers.task of every message sent through the Celery library, is a name
\* under which the worker registers a task.
C22_ProducerConsumerAgreement ==
    /\ (pc = "returned" /\ ETL_TRIGGER_ENABLED) =>
           LET message == celery_message(Basename(trigger_filepath),
                                         trigger_filepath, now)
           IN  Get(Get(message, Word("headers")), Word("task"))
                   \in {J("str", Word(name)) : name \in RegisteredTasks}
    /\ \A i \in DOMAIN celery :
           LET task == Get(Loads(celery[i]).val, Word("task"))
           IN  task # JNone =>
                   task \in {J("str", Word(name)) : name \in RegisteredTasks}
    /\ \A i \in DOMAIN celery :
           LET task == Get(Get(Loads(celery[i]).val, Word("headers")),
                           Word("task"))
           IN  task # JNone =>
                   task \in {J("str", Word(name)) : name \in RegisteredTasks}

\* C23: correlation-id uniqueness.  Any two messages on 'celery' that carry
\* an id carry different ids, whatever the clock second and the directory
\* of their files.
C23_CorrelationIdsUnique ==
    \A i, j \in DOMAIN celery :
        LET a == Get(Loads(celery[i]).val, Word("id"))
            b == Get(Loads(celery[j]).val, Word("id"))
        IN  (i < j /\ a # JNone /\ b # JNone) => a # b

\* C24: atomic configuration reload.  Whenever a tick of the configurable
\* watcher is about to read the configuration (it is examining the files of
\* its glob, or is about to run process_file), the attributes set by
\* _setup_from_config and the configuration object all come from one
\* configuration file, the old one or the new one.
C24_AtomicReload ==
    (variant = "configurable" /\ ((pc = "scan" /\ todo # {}) \/ pc = "delay")) =>
        /\ settings.watcher = config_manager.version
        /\ settings.data_quality = config_manager.version
        /\ pattern_mappings = MappingsOf(config_manager.version)

\* C25: configuration errors are fatal at start-up.  With a configuration
\* that validate_config rejects (a rule that is not a mapping or has no
\* table, or a poll_interval that is not an int) the configurable watcher
\* never is inside a scan tick and never dispatches.
C25_InvalidConfigRefused ==
    (variant = "configurable" /\ ~validate_config(config_manager)) =>
        /\ pc \notin {"scan", "settle", "delay"}
        /\ dispatched = EmptyBag

\* C27: unmatched files are remembered.  When a tick of a pattern-aware
\* watcher classifies a file as matching no rule, the tracker afterwards
\* holds the file's current mtime, so that the unchanged test of later
\* ticks skips the file; for a path seen for the first time and for a known
\* path whose mtime had changed.
C27_UnmatchedIsRemembered ==
    [][\A f \in Files :
          (/\ PatternAware(variant)
           /\ pc = "scan"
           /\ f \in todo
           /\ f \notin todo'
           /\ fs[f].exists
           /\ ~IsKnownUnchanged(f, fs[f].mtime)
           /\ get_table_name_from_path(PathOf(f), pattern_mappings) = None)
          => (/\ f \in DOMAIN file_timestamps'
              /\ file_timestamps'[f] = fs[f].mtime)]_vars

\* C28: ignored survives reload.  No step of reload_config changes
\* file_timestamps or processed_files; and a file that is remembered (the
\* tracker holds its current mtime and no tick is working on it) stays
\* remembered, is not taken up by any tick and is not dispatched, for as
\* long as its mtime does not change, whatever rule set a reload installs.
C28_IgnoredSurvivesReload ==
    /\ [][Reload => UNCHANGED <<file_timestamps, processed_files>>]_vars
    /\ [][\A f \in Files :
             (/\ f \in DOMAIN file_timestamps
              /\ file_timestamps[f] = fs[f].mtime
              /\ filepath # f
              /\ fs'[f] = fs[f])
             => (/\ f \in DOMAIN file_timestamps'
                 /\ file_timestamps'[f] = fs[f].mtime
                 /\ filepath' # f
                 /\ CountOf(f)' = CountOf(f))]_vars

\* C28 witness: the rule set of the reloaded file, which matches f2, is
\* installed; f2 appeared after start-up, was remembered under the old rule
\* set, has never been dispatched, and the tick in progress has passed it.
C28_Witness ==
    /\ rpc = "none"
    /\ pattern_mappings = MappingsOf(1)
    /\ get_table_name_from_path(PathOf("f2"), pattern_mappings) # None
    /\ pre_start["f2"] = 0
    /\ fs["f2"].exists
    /\ "f2" \in DOMAIN file_timestamps
    /\ file_timestamps["f2"] = fs["f2"].mtime
    /\ CountOf("f2") = 0
    /\ pc = "scan"
    /\ "f2" \notin todo

\* C26: a broker hang does not stall scanning.  Whenever the poll loop of the
\* configurable watcher is inside a broker call that does not return, it
\* later gets to the end of its tick (and so to later ticks).
C26_BrokerHangDoesNotStall ==
    (pc = "hung") ~> (pc = "idle")

\* C29: tracker entries are permanent.  No step removes a path from
\* file_timestamps or from processed_files, whatever ticks, dispatches,
\* failing calls and file deletions happen; and every path in
\* processed_files has an entry in file_timestamps, so the processed count
\* of get_status never exceeds the watched count.
C29_TrackerEntriesPermanent ==
    /\ [](/\ processed_files \subseteq DOMAIN file_timestamps
          /\ Cardinality(processed_files) <= Cardinality(DOMAIN file_timestamps))
    /\ [][/\ DOMAIN file_timestamps \subseteq DOMAIN file_timestamps'
          /\ processed_files \subseteq processed_files']_vars

\* C29 witness: a file that was dispatched and then deleted is still in
\* both trackers, next to another tracked file.
C29_Witness ==
    \E f \in Files :
        /\ ~fs[f].exists
        /\ f \in processed_files
        /\ f \in DOMAIN file_timestamps
        /\ CountOf(f) >= 1
        /\ DOMAIN file_timestamps = Files

\* C30 as stated, the clause on paths: a path scheduled at time t is not
\* dispatched before t + ETL_PROCESS_DELAY, that is, no call of the dispatch
\* routine starts for a path that has a pending entry whose delay has not
\* run out.  The sweep fires the entries it took off the queue after it has
\* given the lock back, and the poll thread may have scheduled the path
\* again by then.
C30_NoDispatchBeforeDelay ==
    [][\A f \in Files :
          (in_trigger.path # f /\ in_trigger'.path = f)
          => (\/ f \notin DOMAIN processing_queue
              \/ processing_queue[f].wait = 0)]_vars

\* C30 amended: the delayed-dispatch scheduler, entry by entry.  An entry
\* leaves processing_queue only when its delay ETL_PROCESS_DELAY has run
\* out, and then it is handed to the dispatch loop; scheduling a path replaces whatever entry the path
\* had by one whose delay starts afresh, so a path has one pending entry at
\* most; and every dispatch is the call made for one entry that was handed
\* over, which leaves the sweep's list when the call has returned and before
\* the next call is made, so an entry is fired once at most.
C30_DelayedDispatch ==
    /\ [][\A f \in Files :
             (f \in DOMAIN processing_queue /\ f \notin DOMAIN processing_queue')
             => (/\ processing_queue[f].wait = 0
                 /\ [path |-> f, mtime |-> processing_queue[f].mtime]
                        \in files_to_process')]_vars
    /\ [][(pc = "scheduling" /\ pc' # "scheduling")
             => (/\ DOMAIN processing_queue' = DOMAIN processing_queue \cup {filepath}
                 /\ processing_queue'[filepath].wait = ETL_PROCESS_DELAY
                 /\ \A g \in DOMAIN processing_queue \ {filepath} :
                        processing_queue'[g] = processing_queue[g])]_vars
    /\ [][dispatched' # dispatched
             => \E e \in files_to_process :
                   /\ in_trigger = NoEntry
                   /\ in_trigger'.path = e.path /\ in_trigger'.mtime = e.mtime
                   /\ dispatched' = Record(e.path, e.mtime, None)]_vars
    /\ [][(in_trigger # NoEntry /\ in_trigger' # in_trigger)
             => (/\ in_trigger' = NoEntry
                 /\ files_to_process' = files_to_process \
                       {[path |-> in_trigger.path, mtime |-> in_trigger.mtime]})]_vars

\* C30 witness: the poll thread is about to schedule a path that has a
\* pending entry whose delay has already run out.
C30_Witness ==
    /\ pc = "scheduling"
    /\ filepath \in DOMAIN processing_queue
    /\ processing_queue[filepath].wait = 0
    /\ processing_queue[filepath].mtime # current_mtime


\* C31  Scheduler liveness.  While the processor loop keeps running, a path
\* that is in processing_queue and is not rescheduled for ever is in the end
\* out of the queue, out of the sweep's local list, and has gone through the
\* dispatch routine (which is followed by processed_files.add); this holds
\* although r.lpush may raise for any path of a sweep.
C31_SchedulerLiveness ==
    \A f \in Files :
        \/ []<><<ScheduleRelease /\ filepath = f>>_vars
        \/ (f \in DOMAIN processing_queue)
              ~> (/\ f \notin DOMAIN processing_queue
                  /\ \A e \in files_to_process : e.path # f
                  /\ f \in processed_files)

\* Two paths came due in one sweep, the push failed for one of them (it is
\* processed without a record in the history) and the other is still to be
\* dispatched.
C31_Witness ==
    /\ ppc = "trigger"
    /\ \E e \in files_to_process :
          \E g \in Files \ {e.path} :
              /\ g \in processed_files
              /\ CountOf(g) = 0
              /\ g \notin DOMAIN processing_queue


\* C32  Queued and processed are disjoint: in the service process no path is
\* at once a key of processing_queue and a member of processed_files, so no
\* sweep dispatches a path that is already counted as processed.
C32_QueuedProcessedDisjoint ==
    \A f \in DOMAIN processing_queue : f \notin processed_files


\* C33  Processed means enqueued: in every watcher variant a step that adds
\* a path to processed_files is a step in which a broker enqueue for that
\* path returned (in the service watcher, whose processor thread adds the
\* path in the step after the call: the call just made for that path put its
\* message on the list); a failed enqueue adds nothing.
C33_ProcessedMeansEnqueued ==
    [][\A f \in Files :
          (f \in processed_files' /\ f \notin processed_files)
              => IF variant = "service"
                 THEN in_trigger.path = f /\ in_trigger.pushed
                 ELSE CountOf(f)' = CountOf(f) + 1]_vars


\* C34  Trigger switch: while ETL_TRIGGER_ENABLED is false the service
\* watcher has pushed no message to the broker and has recorded no file as
\* processed.
C34_SwitchOffMeansIdle ==
    ~ETL_TRIGGER_ENABLED =>
        /\ dispatched = EmptyBag
        /\ processed_files = {}


\* C35  Schema follows the routing rule: whenever the configurable watcher
\* builds the arguments of a dispatch, the schema in them is the schema of
\* the rule whose table is in them, for either spelling of the path and for
\* every rule set, patterns with a separator included.
C35_SchemaFollowsRoutingRule ==
    (rOut # Unset /\ table_name # None) =>
        \E i \in DOMAIN rRules :
            /\ rRules[i].table = table_name
            /\ rOut = SchemaNames[i]


C37_CompletionNotification ==
    worker.pos = "done" =>
        /\ Len(worker.posts) =
              IF auto_triggered(worker.args, worker.kwargs) = "True" THEN 1 ELSE 0
        /\ \A i \in DOMAIN worker.posts :
              /\ worker.posts[i].filename = worker.args[1]
              /\ worker.posts[i].status =
                    IF worker.outcome = "SUCCESS" THEN "success" ELSE "failure"


\* C37 witness: a task invoked with auto_triggered=True raised, and its one
\* notification, with status 'failure', could not be delivered.
C37_Witness ==
    /\ worker.pos = "done"
    /\ KwargsGet(worker.kwargs, "auto_triggered") = "True"
    /\ worker.outcome = "FAILURE"
    /\ Len(worker.posts) = 1
    /\ ~worker.posts[1].delivered


\* C38  Rule-set edits: add_pattern of a new pattern puts it after all the
\* existing rules; add_pattern of an existing pattern replaces its table
\* and keeps every rule where it was; remove_pattern of an absent pattern
\* leaves the configuration and the saved file as they were; add_pattern of
\* a new pattern followed by remove_pattern of it gives back the ordered
\* rule set there was before.
C38_RuleSetEdits ==
    \A i \in DOMAIN edits :
        LET e == edits[i]
            before == e.config
            after == IF i < Len(edits) THEN edits[i + 1].config ELSE self_config
            saved == IF i < Len(edits) THEN edits[i + 1].file ELSE config_on_disk
            known == \E k \in DOMAIN before : before[k].pattern = e.pattern
            rule == [pattern |-> e.pattern, table |-> e.table]
        IN  /\ (e.op = "add" /\ ~known) =>
                  /\ after = before \o <<rule>>
                  /\ saved.mappings = after
            /\ (e.op = "add" /\ known) =>
                  /\ Len(after) = Len(before)
                  /\ \A k \in DOMAIN before :
                        after[k] = IF before[k].pattern = e.pattern
                                   THEN rule ELSE before[k]
                  /\ saved.mappings = after
            /\ (e.op = "remove" /\ ~known) =>
                  /\ after = before
                  /\ saved = e.file
            /\ (e.op = "remove" /\ i > 1 /\ edits[i - 1].op = "add"
                   /\ edits[i - 1].pattern = e.pattern
                   /\ \A k \in DOMAIN edits[i - 1].config :
                         edits[i - 1].config[k].pattern # e.pattern) =>
                  after = edits[i - 1].config

\* A pattern that was not in a non-empty rule set has been added and then
\* removed again, and a pattern that was there, not as the last rule, has
\* been given another table.
C38_Witness ==
    /\ \E i \in DOMAIN edits :
          /\ i > 1
          /\ edits[i].op = "remove"
          /\ edits[i - 1].op = "add"
          /\ edits[i - 1].pattern = edits[i].pattern
          /\ edits[i - 1].config # <<>>
          /\ \A k \in DOMAIN edits[i - 1].config :
                edits[i - 1].config[k].pattern # edits[i].pattern
    /\ \E i \in DOMAIN edits :
          /\ edits[i].op = "add"
          /\ \E k \in DOMAIN edits[i].config :
                /\ k < Len(edits[i].config)
                /\ edits[i].config[k].pattern = edits[i].pattern
                /\ edits[i].config[k].table # edits[i].table

=============================================================================
